---- MODULE Spec2Model ----
(***************************************************************************)
(* Model of the sync core of cpp-filecoin:                                 *)
(*   - fc::sync::Branches (branches.cpp / branches.hpp), driven by the     *)
(*     ChainDb::storeTipset flow;                                          *)
(*   - fc::storage::hamt::Hamt (hamt.cpp);                                 *)
(*   - fc::sync::Peers (peers.cpp).                                        *)
(*                                                                         *)
(* BranchInfo objects live on a heap (objs) and the containers of Branches *)
(* hold addresses into it, as the source's std::shared_ptr<BranchInfo> do: *)
(* two containers may refer to the same object, and an object erased from  *)
(* all_branches_ stays alive while another container refers to it.         *)
(***************************************************************************)
EXTENDS Integers, Sequences, FiniteSets, TLC

(***************************************************************************)
(* Bounds                                                                  *)
(***************************************************************************)
\* tipsets 1..Trunk form a linear chain on top of genesis (tipset 1)
Trunk == 4
\* number of tipsets in the universe (hashes 1..NumTipsets)
NumTipsets == 7
\* keys 0..NumKeys-1 and values 1..NumValues of the Hamt that is not flushed
NumKeys == 6
NumValues == 2
\* keys 1..NumFlushKeys and values 1..NumFlushValues of the Hamt that is
\* flushed, and the number of its flushes
NumFlushKeys == 6
NumFlushValues == 1
MaxFlushes == 1
\* keys 1..NumOutageKeys of the Hamt whose block store can fail
NumOutageKeys == 5
\* the number of flushes of the Hamt that is opened again at its root CID
MaxReflushes == 2
\* Peers: peers 1..NumPeers, ratings within -MaxRating..MaxRating, and at
\* most MaxRatingEntries entries in ratings_
NumPeers == 2
MaxRating == 100
MaxRatingEntries == 3
\* length of the modelled sha256 digest, in bits
HashBits == 3
\* the keys 0..Colliding-1 have the same digest
Colliding == 4

\* the branch records Branches::init is given: ids 1..NumInitBranches, heights
\* 0..MaxInitHeight
NumInitBranches == 3

MaxInitHeight == 2

(***************************************************************************)
(* Program constants                                                       *)
(***************************************************************************)
kNoBranch == 0
kGenesisBranch == 1
\* TipsetHash{} : the empty hash
NoHash == 0
\* an empty std::shared_ptr
NullPtr == 0
\* Hamt: the largest leaf, and the bits of the digest one level consumes
kLeafMax == 3
bit_width_ == 1
\* Peers: the latency from which a peer counts as slow, in microseconds
ten_seconds == 10000000

(***************************************************************************)
(* Generic helpers for std::map                                            *)
(***************************************************************************)
EmptyMap == [x \in {} |-> 0]

Put(f, k, v) == [x \in (DOMAIN f) \cup {k} |-> IF x = k THEN v ELSE f[x]]

Erase(f, k) == [x \in (DOMAIN f) \ {k} |-> f[x]]

MaxOf(S) == CHOOSE x \in S : \A y \in S : y <= x

MinOf(S) == CHOOSE x \in S : \A y \in S : x <= y

RECURSIVE SortedSeq(_)
\* iteration order of a std::set / std::map of integers
SortedSeq(S) == IF S = {} THEN <<>> ELSE <<MinOf(S)>> \o SortedSeq(S \ {MinOf(S)})

(***************************************************************************)
(* The tipsets a peer may deliver.  Tipset 1 is genesis, 2..Trunk extend   *)
(* it linearly; the tipsets above Trunk form a side chain that forks from  *)
(* tipset ForkAt, its second tipset skipping one height (a null round).    *)
(***************************************************************************)
Tipsets == 1..NumTipsets

ForkAt == Trunk - 1

ParentOf(t) ==
  IF t = 1 THEN NoHash
  ELSE IF t <= Trunk THEN t - 1
  ELSE IF t = Trunk + 1 THEN ForkAt
  ELSE t - 1

HeightOf(t) ==
  IF t <= Trunk THEN t - 1
  ELSE IF t = Trunk + 1 THEN ForkAt
  ELSE ForkAt + (t - Trunk)

MaxHeight == MaxOf({HeightOf(t) : t \in Tipsets})

VARIABLES
  ndebug,               \* TRUE: built with NDEBUG, assert() compiles to nothing
  fail,                 \* "none", or how the process died: "abort" | "ub"
  objs,                 \* heap of BranchInfo, addressed 1..Len(objs)
  all_branches_,        \* BranchId -> address
  heads_,               \* TipsetHash -> address
  unloaded_roots_,      \* TipsetHash -> address
  genesis_branch_,      \* address or NullPtr
  current_chain_,       \* Height -> address
  current_top_branch_,
  current_height_,
  index_db_,                \* IndexDb: TipsetHash -> BranchId of the stored tipsets
  pc,                   \* position inside ChainDb::storeTipset
  cur,                  \* the tipset ChainDb::storeTipset is storing
  pos,                  \* the StorePosition found for cur
  changes,              \* HeadChanges of the last Branches::storeTipset
  ret,                  \* outcome of the last call
  ever_added,           \* hashes announced in some HeadChanges.added so far
  in_order,             \* all tipsets so far were stored in order on genesis
  hamt_root,            \* Hamt::root_ : the root Item
  hamt_store,           \* the blocks put into the IpfsDatastore
  hamt_flushes,         \* number of Hamt::flush calls so far
  hamt_ref,             \* reference map: what the successful calls stored
  hamt_ret              \* the last Hamt call, its outcome, and for a
                        \* remove whether the reference map held the key

branchVars == <<ndebug, fail, objs, all_branches_, heads_, unloaded_roots_,
                genesis_branch_, current_chain_, current_top_branch_,
                current_height_, index_db_, pc, cur, pos, changes, ret,
                ever_added, in_order>>

hamtVars == <<hamt_root, hamt_store, hamt_flushes, hamt_ref, hamt_ret>>

VARIABLES
  peers_,               \* Peers::peers_ : PeerId -> Rating
  ratings_              \* Peers::ratings_ : multimap of <<Rating, PeerId>>,
                        \* each entry with the number of its copies

peersVars == <<peers_, ratings_>>

vars == <<branchVars, hamtVars, peersVars>>

(***************************************************************************)
(* Branches as a value: the fields of the object plus the heap, the        *)
(* HeadChanges being built and the way the call died, if it did.           *)
(***************************************************************************)
This ==
  [objs |-> objs, all_branches_ |-> all_branches_, heads_ |-> heads_,
   unloaded_roots_ |-> unloaded_roots_, genesis_branch_ |-> genesis_branch_,
   current_chain_ |-> current_chain_,
   current_top_branch_ |-> current_top_branch_,
   current_height_ |-> current_height_,
   changes |-> [removed |-> <<>>, added |-> <<>>],
   fail |-> "none"]

NoChanges == [removed |-> <<>>, added |-> <<>>]

\* assert(cond): aborts the process unless built with NDEBUG
Check(S, cond) ==
  IF S.fail # "none" \/ cond \/ ndebug THEN S ELSE [S EXCEPT !.fail = "abort"]

\* dereference of a null pointer or of an end() iterator
Undefined(S) == IF S.fail # "none" THEN S ELSE [S EXCEPT !.fail = "ub"]

\* Branches::getBranch(id) (non-const): the address or NullPtr
getBranch(S, id) ==
  IF id \in DOMAIN S.all_branches_ THEN S.all_branches_[id] ELSE NullPtr

\* fault injection for newBranchId: the largest id in use is handed out again
newBranchIdLast(S) ==
  IF DOMAIN S.all_branches_ # {} THEN MaxOf(DOMAIN S.all_branches_)
  ELSE kGenesisBranch + 1

newBranchId(S) ==
  IF DOMAIN S.all_branches_ # {} THEN MaxOf(DOMAIN S.all_branches_) + 1
  ELSE kGenesisBranch + 1

(***************************************************************************)
(* Branches::findStorePosition                                             *)
(***************************************************************************)
NoRename ==
  [present |-> FALSE, old_id |-> kNoBranch, new_id |-> kNoBranch,
   above_height |-> 0, split |-> FALSE]

RenameBranch(old, new, above, split) ==
  [present |-> TRUE, old_id |-> old, new_id |-> new,
   above_height |-> above, split |-> split]

\* a default-constructed StorePosition
NoPosition ==
  [assigned_branch |-> kNoBranch, at_bottom_of_branch |-> kNoBranch,
   on_top_of_branch |-> kNoBranch, rename |-> NoRename]

\* the branch id is assigned when none of the cases above did it
assignFresh(S, p) ==
  IF p.assigned_branch = kNoBranch
    THEN [p EXCEPT !.assigned_branch = newBranchId(S)]
    ELSE p

\* fault injection for findStorePosition: no validation of the arguments
findStorePositionUnchecked(S, hash, height, parent_hash, parent_branch, parent_height) ==
  IF height = 0
    THEN [err |-> "ok",
          pos |-> [NoPosition EXCEPT !.assigned_branch = kGenesisBranch]]
  ELSE IF parent_branch \in DOMAIN S.all_branches_
         /\ parent_height # S.objs[S.all_branches_[parent_branch]].top_height
    THEN [err |-> "ok",
          pos |-> assignFresh(S,
                    [NoPosition EXCEPT
                       !.on_top_of_branch = parent_branch,
                       !.rename = RenameBranch(parent_branch, newBranchId(S),
                                               parent_height, TRUE)])]
  ELSE IF parent_branch \in DOMAIN S.all_branches_
         /\ S.objs[S.all_branches_[parent_branch]].forks = {}
    THEN [err |-> "ok",
          pos |-> [NoPosition EXCEPT !.on_top_of_branch = parent_branch,
                                     !.assigned_branch = parent_branch]]
  ELSE [err |-> "ok",
        pos |-> assignFresh(S, [NoPosition EXCEPT
                                  !.on_top_of_branch = parent_branch])]

\* assert(parent_height < height) at line 209 holds for every tipset of the
\* universe: the height of a parent is below the height of its child
findStorePosition(S, hash, height, parent_hash, parent_branch, parent_height) ==
  IF height = 0 THEN
    IF DOMAIN S.all_branches_ # {}
      THEN [err |-> "BRANCHES_STORE_ERROR", pos |-> NoPosition]
      ELSE [err |-> "ok",
            pos |-> [NoPosition EXCEPT !.assigned_branch = kGenesisBranch]]
  ELSE
    LET p1 == IF hash \in DOMAIN S.unloaded_roots_
                THEN [NoPosition EXCEPT
                        !.at_bottom_of_branch =
                            S.objs[S.unloaded_roots_[hash]].id,
                        !.assigned_branch =
                            S.objs[S.unloaded_roots_[hash]].id]
                ELSE NoPosition
    IN IF parent_branch # kNoBranch THEN
         IF parent_branch \notin DOMAIN S.all_branches_
           THEN [err |-> "BRANCHES_BRANCH_NOT_FOUND", pos |-> NoPosition]
         ELSE
           LET info == S.objs[S.all_branches_[parent_branch]]
               p2 == [p1 EXCEPT !.on_top_of_branch = parent_branch]
               p3 == IF parent_height # info.top_height
                       THEN [p2 EXCEPT !.rename =
                               RenameBranch(parent_branch, newBranchId(S),
                                            parent_height, TRUE)]
                     ELSE IF info.forks = {}
                       THEN IF p2.at_bottom_of_branch # kNoBranch
                              THEN [p2 EXCEPT
                                      !.assigned_branch = parent_branch,
                                      !.rename =
                                        RenameBranch(p2.at_bottom_of_branch,
                                                     parent_branch, 0, FALSE)]
                              ELSE [p2 EXCEPT
                                      !.assigned_branch = parent_branch]
                     ELSE p2
           IN IF parent_height > info.top_height
                 \/ parent_height < info.bottom_height
                THEN [err |-> "BRANCHES_HEIGHT_MISMATCH", pos |-> NoPosition]
                ELSE [err |-> "ok", pos |-> assignFresh(S, p3)]
       ELSE [err |-> "ok", pos |-> assignFresh(S, p1)]

(***************************************************************************)
(* Branches::newBranch                                                     *)
(***************************************************************************)
NewBranchInfo ==
  [id |-> kNoBranch, top |-> NoHash, top_height |-> 0, bottom |-> NoHash,
   bottom_height |-> 0, parent |-> kNoBranch, parent_hash |-> NoHash,
   synced_to_genesis |-> FALSE, forks |-> {}]

\* fault injection for newBranch: the genesis branch is not marked synced
newBranchUnsynced(S, hash, height, parent_hash, p) ==
  LET ptr == Len(S.objs) + 1
      info == [NewBranchInfo EXCEPT
                 !.id = p.assigned_branch, !.top = hash,
                 !.top_height = height, !.bottom = hash,
                 !.bottom_height = height, !.parent_hash = parent_hash]
      S2 == [S EXCEPT !.objs = Append(@, info),
                      !.all_branches_ = Put(@, info.id, ptr),
                      !.heads_ = Put(@, hash, ptr)]
  IN IF parent_hash = NoHash THEN [S2 EXCEPT !.genesis_branch_ = ptr]
     ELSE [S2 EXCEPT !.unloaded_roots_ = Put(@, parent_hash, ptr)]

newBranch(S, hash, height, parent_hash, p) ==
  LET S1 == Check(Check(S, p.assigned_branch # kNoBranch),
                  p.assigned_branch \notin DOMAIN S.all_branches_)
      ptr == Len(S.objs) + 1
      info == [NewBranchInfo EXCEPT
                 !.id = p.assigned_branch, !.top = hash,
                 !.top_height = height, !.bottom = hash,
                 !.bottom_height = height, !.parent_hash = parent_hash]
      S2 == [S1 EXCEPT !.objs = Append(@, info),
                       !.all_branches_ = Put(@, info.id, ptr),
                       !.heads_ = Put(@, hash, ptr)]
  IN IF S1.fail # "none" THEN S1
     ELSE IF parent_hash = NoHash THEN
       Check(Check([S2 EXCEPT !.objs[ptr].synced_to_genesis = TRUE,
                              !.genesis_branch_ = ptr],
                   p.assigned_branch = kGenesisBranch),
             height = 0)
     ELSE
       Check([S2 EXCEPT !.unloaded_roots_ = Put(@, parent_hash, ptr)],
             height > 0)

(***************************************************************************)
(* Branches::updateHeads                                                   *)
(***************************************************************************)
\* fault injection for announceHead: a head is announced synced or not
announceAnyHead(S, synced, top) ==
  [S EXCEPT !.changes.added = Append(@, top)]

\* lines 469-471: a head is announced once its branch is synced to genesis
announceHead(S, synced, top) ==
  IF synced THEN [S EXCEPT !.changes.added = Append(@, top)] ELSE S

\* fault injection for updateHeads: the forks are not visited
updateHeadsShallow(S, branch, synced) ==
  IF S.fail # "none" THEN S
  ELSE LET S1 == [S EXCEPT !.objs[branch].synced_to_genesis = synced,
                           !.heads_ = Put(@, S.objs[branch].top, branch)]
       IN announceHead(S1, synced, S.objs[branch].top)

RECURSIVE updateHeads(_, _, _)
RECURSIVE updateForks(_, _, _)

\* the loop over branch->forks, in the order of the std::set
updateForks(S, ids, synced) ==
  IF ids = <<>> \/ S.fail # "none" THEN S
  ELSE
    LET fork == getBranch(S, Head(ids))
        S1 == Check(S, fork # NullPtr)
    IN IF S1.fail # "none" THEN S1
       ELSE IF fork = NullPtr THEN Undefined(S1)
       ELSE
         LET S2 == Check(S1, ~S1.objs[fork].synced_to_genesis)
         IN IF S2.fail # "none" THEN S2
            ELSE updateForks(updateHeads(S2, fork, synced), Tail(ids), synced)

updateHeads(S, branch, synced) ==
  IF S.fail # "none" THEN S
  ELSE
    LET S1 == [S EXCEPT !.objs[branch].synced_to_genesis = synced]
        b == S1.objs[branch]
    IN IF b.forks = {} THEN
         LET S2 == [S1 EXCEPT !.heads_ = Put(@, b.top, branch)]
         IN announceHead(S2, synced, b.top)
       ELSE updateForks(S1, SortedSeq(b.forks), synced)

(***************************************************************************)
(* Branches::mergeBranches                                                 *)
(***************************************************************************)
\* std::move leaves branch->top and branch->forks empty
mergeBranches(S, branch, parent_branch) ==
  LET b == S.objs[branch]
      S1 == [S EXCEPT !.objs[parent_branch].top_height = b.top_height,
                      !.objs[parent_branch].top = b.top,
                      !.objs[parent_branch].forks = b.forks]
      S2 == IF branch = parent_branch THEN S1
            ELSE [S1 EXCEPT !.objs[branch].top = NoHash,
                            !.objs[branch].forks = {}]
      S3 == [S2 EXCEPT !.all_branches_ = Erase(@, S2.objs[branch].id)]
  IN updateHeads(S3, parent_branch,
                 S3.objs[parent_branch].synced_to_genesis)

(***************************************************************************)
(* Branches::storeTipset                                                   *)
(***************************************************************************)
\* lines 331-355: the tipset becomes the bottom of the unloaded subgraph
linkToBottom(S, hash, height, parent_hash, p) ==
  LET S0 == Check(S, hash \in DOMAIN S.unloaded_roots_)
  IN IF S0.fail # "none" THEN S0
     ELSE IF hash \notin DOMAIN S.unloaded_roots_ THEN Undefined(S0)
     ELSE
       LET b == S.unloaded_roots_[hash]
           S1 == Check(Check(Check(S0, S.objs[b].bottom_height > height),
                             S.objs[b].parent = kNoBranch),
                       S.objs[b].id = p.at_bottom_of_branch)
           S2 == [S1 EXCEPT !.objs[b].bottom_height = height,
                            !.objs[b].bottom = hash,
                            !.objs[b].parent_hash = parent_hash,
                            !.unloaded_roots_ = Erase(@, hash)]
       IN IF S1.fail # "none" THEN S1
          ELSE IF p.on_top_of_branch = kNoBranch
            THEN [S2 EXCEPT !.unloaded_roots_ = Put(@, parent_hash, b)]
            ELSE S2

\* fault injection for notifyChange: the old top is not reported as removed
notifyAddedOnly(S, notify_change, parent_hash, hash) ==
  IF notify_change
    THEN [S EXCEPT !.changes.added = Append(@, hash)]
    ELSE S

\* lines 382-385: the head change of an extended head
notifyChange(S, notify_change, parent_hash, hash) ==
  IF notify_change
    THEN [S EXCEPT !.changes.removed = Append(@, parent_hash),
                   !.changes.added = Append(@, hash)]
    ELSE S

\* lines 359-396: linking without fork
linkOnTop(S, hash, height, parent_hash, p, linked_to_bottom) ==
  LET S0 == Check(S, parent_hash \in DOMAIN S.heads_)
  IN IF S0.fail # "none" THEN S0
     ELSE IF parent_hash \notin DOMAIN S.heads_ THEN Undefined(S0)
     ELSE
       LET parent_branch == S.heads_[parent_hash]
           S1 == [S0 EXCEPT !.heads_ = Erase(@, parent_hash)]
           S2 == Check(Check(S1, S.objs[parent_branch].top_height < height),
                       S.objs[parent_branch].forks = {})
       IN IF S2.fail # "none" THEN S2
          ELSE IF linked_to_bottom = NullPtr THEN
            LET notify_change == S2.objs[parent_branch].synced_to_genesis
                S3 == [S2 EXCEPT
                         !.objs[parent_branch].top_height = height,
                         !.objs[parent_branch].top = parent_hash,
                         !.heads_ = Put(@, hash, parent_branch)]
            IN notifyChange(S3, notify_change, parent_hash, hash)
          ELSE
            LET S3 == Check(Check(S2, p.at_bottom_of_branch # kNoBranch),
                            getBranch(S2, p.at_bottom_of_branch)
                              = linked_to_bottom)
            IN IF S3.fail # "none" THEN S3
               ELSE mergeBranches(S3, linked_to_bottom, parent_branch)

\* lines 398-419: make fork from the non-head branch top
forkFromTop(S, hash, height, parent_hash, p, linked_to_bottom) ==
  LET branch == getBranch(S, p.on_top_of_branch)
      S0 == Check(S, branch # NullPtr)
  IN IF S0.fail # "none" THEN S0
     ELSE IF branch = NullPtr THEN Undefined(S0)
     ELSE
       LET S1 == Check(Check(Check(S0, parent_hash = S.objs[branch].top),
                             parent_hash \notin DOMAIN S.heads_),
                       S.objs[branch].forks # {})
           S2 == IF linked_to_bottom = NullPtr
                   THEN newBranch(S1, hash, height, parent_hash, p)
                   ELSE S1
           linked == IF linked_to_bottom = NullPtr
                       THEN getBranch(S2, p.assigned_branch)
                       ELSE linked_to_bottom
       IN IF S2.fail # "none" THEN S2
          ELSE IF linked = NullPtr THEN Undefined(Check(S2, FALSE))
          ELSE
            LET S3 == [S2 EXCEPT
                         !.objs[branch].forks = @ \cup {p.assigned_branch}]
                S4 == [S3 EXCEPT
                         !.objs[linked].parent = S3.objs[branch].id]
            IN updateHeads(S4, linked, S4.objs[branch].synced_to_genesis)

storeTipset(S, hash, height, parent_hash, p) ==
  IF p.at_bottom_of_branch = kNoBranch /\ p.on_top_of_branch = kNoBranch THEN
    \* new standalone branch: the HeadChanges returned is empty
    newBranch(S, hash, height, parent_hash, p)
  ELSE
    LET S0 == Check(S, height > 0 /\ parent_hash # NoHash)
        linked_to_bottom ==
          IF p.at_bottom_of_branch # kNoBranch
               /\ hash \in DOMAIN S.unloaded_roots_
            THEN S.unloaded_roots_[hash]
            ELSE NullPtr
        S1 == IF p.at_bottom_of_branch # kNoBranch
                THEN linkToBottom(S0, hash, height, parent_hash, p)
                ELSE S0
    IN IF S1.fail # "none" THEN S1
       ELSE IF p.at_bottom_of_branch # kNoBranch
               /\ p.on_top_of_branch = kNoBranch THEN S1
       ELSE IF p.assigned_branch = p.on_top_of_branch
         THEN linkOnTop(S1, hash, height, parent_hash, p, linked_to_bottom)
         ELSE forkFromTop(S1, hash, height, parent_hash, p, linked_to_bottom)

(***************************************************************************)
(* Branches::storeGenesis                                                  *)
(***************************************************************************)
storeGenesis(S, hash, height) ==
  IF DOMAIN S.all_branches_ # {}
    THEN [err |-> "BRANCHES_STORE_ERROR", S |-> S]
    ELSE [err |-> "ok",
          S |-> storeTipset(S, hash, height, NoHash,
                   [NoPosition EXCEPT !.assigned_branch = kGenesisBranch])]

(***************************************************************************)
(* Branches::splitBranch                                                   *)
(***************************************************************************)
RECURSIVE reparentForks(_, _, _)
\* lines 276-280: every fork of the copied branch gets the new parent id
reparentForks(S, ids, new_parent) ==
  IF ids = <<>> \/ S.fail # "none" THEN S
  ELSE
    LET b == getBranch(S, Head(ids))
        S1 == Check(S, b # NullPtr)
    IN IF S1.fail # "none" THEN S1
       ELSE IF b = NullPtr THEN Undefined(S1)
       ELSE reparentForks([S1 EXCEPT !.objs[b].parent = new_parent],
                          Tail(ids), new_parent)

splitBranch(S, new_top, new_bottom, new_bottom_height, r) ==
  LET S0 == Check(Check(Check(Check(S, r.old_id # kNoBranch),
                              r.new_id # kNoBranch),
                        r.new_id # r.old_id),
                  r.new_id \notin DOMAIN S.all_branches_)
      parent == getBranch(S, r.old_id)
      S1 == Check(S0, parent # NullPtr)
  IN IF S1.fail # "none" THEN S1
     ELSE IF parent = NullPtr THEN Undefined(S1)
     ELSE
       LET old == S.objs[parent]
           S2 == Check(Check(Check(Check(S1,
                         old.top_height > r.above_height),
                         old.bottom_height <= r.above_height),
                         new_bottom_height <= old.top_height),
                         new_bottom_height > r.above_height)
           fork == Len(S.objs) + 1
           is_head == old.top \in DOMAIN S.heads_
           in_current_chain ==
             /\ DOMAIN S.current_chain_ # {}
             /\ old.synced_to_genesis
             /\ old.top_height \in DOMAIN S.current_chain_
             /\ S.current_chain_[old.top_height] = parent
           forkInfo == [old EXCEPT !.id = r.new_id, !.bottom = new_bottom,
                                   !.parent = old.id]
           S3 == [S2 EXCEPT
                    !.objs = Append(@, forkInfo),
                    !.heads_ = IF is_head THEN Erase(@, old.top) ELSE @,
                    !.current_chain_ =
                       IF in_current_chain THEN Erase(@, old.top_height)
                       ELSE @]
           S4 == reparentForks(S3, SortedSeq(forkInfo.forks), r.new_id)
           S5 == [S4 EXCEPT
                    !.all_branches_ = Put(@, r.new_id, fork),
                    !.objs[parent].top = new_top,
                    !.objs[parent].top_height = r.above_height,
                    !.objs[parent].forks = {r.new_id}]
           S6 == IF is_head
                   THEN [S5 EXCEPT
                           !.heads_ = Put(@, S5.objs[fork].top, fork)]
                   ELSE S5
           S7 == IF in_current_chain
                   THEN [S6 EXCEPT
                           !.current_chain_ =
                              Put(Put(@, S6.objs[parent].top_height, parent),
                                  S6.objs[fork].top_height, fork)]
                   ELSE S6
       IN IF S2.fail # "none" THEN S2
          ELSE IF S4.fail # "none" THEN S4
          ELSE S7

(***************************************************************************)
(* Branches::setCurrentHead                                                *)
(***************************************************************************)
RECURSIVE walkToGenesis(_, _, _)
\* lines 167-178: the loop over the parents, with its cycle guard
walkToGenesis(S, parent, cycle_guard) ==
  IF parent = kNoBranch \/ S.fail # "none" THEN [err |-> "ok", S |-> S]
  ELSE IF cycle_guard - 1 = 0
    THEN [err |-> "BRANCHES_CYCLE_DETECTED",
          S |-> [S EXCEPT !.current_chain_ = EmptyMap]]
  ELSE
    LET S1 == Check(S, parent \in DOMAIN S.all_branches_)
    IN IF S1.fail # "none" THEN [err |-> "ok", S |-> S1]
       ELSE IF parent \notin DOMAIN S.all_branches_
         THEN [err |-> "ok", S |-> Undefined(S1)]
       ELSE
         LET branch == S.all_branches_[parent]
         IN walkToGenesis(
              [S1 EXCEPT !.current_chain_ =
                           Put(@, S.objs[branch].top_height, branch)],
              S.objs[branch].parent, cycle_guard - 1)

setCurrentHead(S, head_branch, height) ==
  IF head_branch = kNoBranch THEN
    [err |-> "ok",
     S |-> [S EXCEPT !.current_chain_ = EmptyMap,
                     !.current_top_branch_ = kNoBranch,
                     !.current_height_ = 0]]
  ELSE IF S.current_top_branch_ = head_branch THEN
    IF S.current_height_ # height THEN
      IF DOMAIN S.current_chain_ = {} THEN [err |-> "ok", S |-> Undefined(S)]
      ELSE
        LET info == S.objs[S.current_chain_[MaxOf(DOMAIN S.current_chain_)]]
        IN IF info.top_height < height \/ info.bottom_height > height
             THEN [err |-> "BRANCHES_HEIGHT_MISMATCH", S |-> S]
             ELSE [err |-> "ok", S |-> [S EXCEPT !.current_height_ = height]]
    ELSE [err |-> "ok", S |-> S]
  ELSE IF head_branch \notin DOMAIN S.all_branches_ THEN
    [err |-> "BRANCHES_HEAD_NOT_FOUND", S |-> S]
  ELSE
    LET ptr == S.all_branches_[head_branch]
        info == S.objs[ptr]
    IN IF ~info.synced_to_genesis
         THEN [err |-> "BRANCHES_HEAD_NOT_SYNCED", S |-> S]
       ELSE IF info.top_height < height \/ info.bottom_height > height
         THEN [err |-> "BRANCHES_HEIGHT_MISMATCH", S |-> S]
       ELSE
         walkToGenesis(
           [S EXCEPT !.current_height_ = height,
                     !.current_top_branch_ = head_branch,
                     !.current_chain_ = Put(EmptyMap, info.top_height, ptr)],
           info.parent, Cardinality(DOMAIN S.all_branches_) + 1)

(***************************************************************************)
(* Branches::getBranchAtHeight                                             *)
(***************************************************************************)
\* std::map::lower_bound on current_chain_: the least key >= h, if any
lowerBound(chain, h) == {k \in DOMAIN chain : k >= h}

\* getBranchAtHeight without the check of an empty current chain
getBranchAtHeightUnguarded(S, h, must_exist) ==
  IF h > S.current_height_
    THEN IF must_exist THEN [err |-> "BRANCHES_BRANCH_NOT_FOUND", id |-> kNoBranch]
         ELSE [err |-> "ok", id |-> kNoBranch]
  ELSE IF S.genesis_branch_ = NullPtr THEN [err |-> "ub", id |-> kNoBranch]
  ELSE [err |-> "ok", id |-> kGenesisBranch]

\* the result is [err, id]; the genesis pointer is dereferenced unchecked
getBranchAtHeight(S, h, must_exist) ==
  IF DOMAIN S.current_chain_ = {}
    THEN [err |-> "BRANCHES_NO_CURRENT_CHAIN", id |-> kNoBranch]
  ELSE IF h > S.current_height_ THEN
    IF must_exist THEN [err |-> "BRANCHES_BRANCH_NOT_FOUND", id |-> kNoBranch]
    ELSE [err |-> "ok", id |-> kNoBranch]
  ELSE IF S.genesis_branch_ = NullPtr THEN [err |-> "ub", id |-> kNoBranch]
  ELSE IF h <= S.objs[S.genesis_branch_].top_height
    THEN [err |-> "ok", id |-> kGenesisBranch]
  ELSE IF lowerBound(S.current_chain_, h) = {} THEN
    IF must_exist THEN [err |-> "BRANCHES_BRANCH_NOT_FOUND", id |-> kNoBranch]
    ELSE [err |-> "ok", id |-> kNoBranch]
  ELSE [err |-> "ok",
        id |-> S.objs[S.current_chain_[
                        MinOf(lowerBound(S.current_chain_, h))]].id]

(***************************************************************************)
(* Branches::getRoute                                                      *)
(***************************************************************************)
RECURSIVE reverse(_)
\* std::reverse
reverse(q) == IF q = <<>> THEN <<>> ELSE Append(reverse(Tail(q)), Head(q))

RECURSIVE routeLoop(_, _, _, _, _)
\* lines 101-112: the walk from "to" towards "from"; the loop has no guard,
\* so a walk longer than the number of branches never ends
routeLoop(S, from, to, route, fuel) ==
  IF fuel = 0 THEN [err |-> "no termination", route |-> <<>>]
  ELSE IF to \notin DOMAIN S.all_branches_
    THEN [err |-> "BRANCHES_BRANCH_NOT_FOUND", route |-> <<>>]
  ELSE
    LET next == S.objs[S.all_branches_[to]].parent
    IN IF next = from
         THEN [err |-> "ok", route |-> Append(Append(route, to), from)]
       ELSE IF next = kNoBranch \/ next = kGenesisBranch
         THEN [err |-> "BRANCHES_NO_ROUTE", route |-> <<>>]
       ELSE routeLoop(S, from, next, Append(route, to), fuel - 1)

\* the result is [err, route]
getRoute(S, from, to) ==
  IF from = kNoBranch \/ to = kNoBranch
    THEN [err |-> "BRANCHES_NO_ROUTE", route |-> <<>>]
  ELSE IF from = to THEN [err |-> "ok", route |-> <<from>>]
  ELSE
    LET r == routeLoop(S, from, to, <<>>,
                       Cardinality(DOMAIN S.all_branches_) + 1)
    IN [err |-> r.err, route |-> reverse(r.route)]

(***************************************************************************)
(* Branches::clear and Branches::init                                      *)
(***************************************************************************)
\* the BranchInfo objects are owned by the containers: clearing frees them
clear(S) ==
  [S EXCEPT !.objs = <<>>,
            !.all_branches_ = EmptyMap,
            !.heads_ = EmptyMap,
            !.unloaded_roots_ = EmptyMap,
            !.genesis_branch_ = NullPtr,
            !.current_chain_ = EmptyMap,
            !.current_top_branch_ = kNoBranch,
            !.current_height_ = 0]

loadFailed(S) == [err |-> "BRANCHES_LOAD_ERROR", S |-> clear(S)]

RECURSIVE initLoop(_, _)
\* the loop over all_branches_ in key order (lines 543-608)
initLoop(S, ids) ==
  IF ids = <<>> \/ S.fail # "none" THEN [err |-> "ok", S |-> S]
  ELSE
    LET id == Head(ids)
        ptr == S.all_branches_[id]
    IN IF ptr = NullPtr THEN loadFailed(S)
       ELSE
         LET b == S.objs[ptr]
         IN IF id # b.id \/ id = kNoBranch THEN loadFailed(S)
            ELSE IF b.top_height < b.bottom_height THEN loadFailed(S)
            ELSE IF b.parent # kNoBranch THEN
              IF b.parent = b.id THEN loadFailed(S)
              ELSE IF b.parent \notin DOMAIN S.all_branches_ THEN loadFailed(S)
              ELSE
                LET parent == S.all_branches_[b.parent]
                IN IF parent = NullPtr THEN [err |-> "ok", S |-> Undefined(S)]
                   ELSE IF S.objs[parent].top_height >= b.bottom_height
                     THEN loadFailed(S)
                   ELSE initLoop([S EXCEPT !.objs[parent].forks = @ \cup {b.id}],
                                 Tail(ids))
            ELSE IF b.id = kGenesisBranch
              THEN initLoop([S EXCEPT !.genesis_branch_ = ptr], Tail(ids))
            ELSE IF b.parent_hash = NoHash
              THEN [err |-> "BRANCHES_PARENT_EXPECTED", S |-> S]
            ELSE initLoop([S EXCEPT !.unloaded_roots_ =
                                      Put(@, b.parent_hash, ptr)],
                          Tail(ids))

RECURSIVE unsyncedHeads(_, _)
\* the loop that registers the unsynced heads (lines 618-628)
unsyncedHeads(S, ids) ==
  IF ids = <<>> \/ S.fail # "none" THEN S
  ELSE
    LET ptr == S.all_branches_[Head(ids)]
    IN IF S.objs[ptr].forks = {} /\ ~S.objs[ptr].synced_to_genesis
         THEN unsyncedHeads([S EXCEPT !.heads_ = Put(@, S.objs[ptr].top, ptr)],
                            Tail(ids))
         ELSE unsyncedHeads(S, Tail(ids))

\* all_branches: BranchId -> address into heap, or NullPtr.  The HeadChanges
\* returned are S.changes.
init(S, all_branches, heap) ==
  IF DOMAIN all_branches = {} THEN [err |-> "ok", S |-> clear(S)]
  ELSE
    LET S1 == [clear(S) EXCEPT !.all_branches_ = all_branches, !.objs = heap]
        r == initLoop(S1, SortedSeq(DOMAIN all_branches))
    IN IF r.err # "ok" \/ r.S.fail # "none" THEN r
       ELSE IF r.S.genesis_branch_ = NullPtr
         THEN [err |-> "BRANCHES_NO_GENESIS_BRANCH", S |-> clear(r.S)]
       ELSE [err |-> "ok",
             S |-> unsyncedHeads(updateHeads(r.S, r.S.genesis_branch_, TRUE),
                                 SortedSeq(DOMAIN all_branches))]

(***************************************************************************)
(* Hamt (hamt.cpp).  An Item is one of                                     *)
(*   [t |-> "leaf", kv |-> key -> value]        Node::Leaf                  *)
(*   [t |-> "ptr", items |-> index -> Item]     Node::Ptr, a loaded node    *)
(*   [t |-> "cid", c |-> index -> Item]         CID of a stored node        *)
(* A CID is modelled by the block it addresses: two CIDs are equal exactly *)
(* when the encoded nodes are.                                             *)
(***************************************************************************)
Keys == 0..(NumKeys - 1)

Values == 1..NumValues

FlushKeys == 1..NumFlushKeys

FlushValues == 1..NumFlushValues

RECURSIVE Pow2(_)
Pow2(n) == IF n = 0 THEN 1 ELSE 2 * Pow2(n - 1)

\* libp2p::crypto::sha256, as a number of HashBits bits
sha256(key) ==
  (IF key < Colliding THEN 0 ELSE key - Colliding + 1) % Pow2(HashBits)

\* bit number offset of the digest, counted from the most significant one
hashBit(hash, offset) == (hash \div Pow2(HashBits - 1 - offset)) % 2

RECURSIVE readIndex(_, _, _)
\* lines 111-117: bit_width_ bits from offset on, as a number
readIndex(hash, offset, i) ==
  IF i = 0 THEN 0
  ELSE 2 * readIndex(hash, offset, i - 1) + hashBit(hash, offset + i - 1)

RECURSIVE indicesFrom(_, _, _)
indicesFrom(hash, offset, max_bits) ==
  IF offset + bit_width_ <= max_bits
    THEN <<readIndex(hash, offset, bit_width_)>>
           \o indicesFrom(hash, offset + bit_width_, max_bits)
    ELSE <<>>

\* Hamt::keyToIndices(key, n); n = -1 asks for all the indices
keyToIndices(key, n) ==
  LET max_bits == HashBits - (HashBits % bit_width_)
      offset == IF n # -1 THEN max_bits - (n - 1) * bit_width_ ELSE 0
  IN indicesFrom(sha256(key), offset, max_bits)

Leaf(kv) == [t |-> "leaf", kv |-> kv]

Ptr(items) == [t |-> "ptr", items |-> items]

Cid(c) == [t |-> "cid", c |-> c]

\* fault injection for loadItem: a block the store does not return is taken
\* for an empty node
loadItemSilent(st, item) ==
  IF item.t = "cid" THEN
    IF item.c \in st THEN [err |-> "ok", item |-> Ptr(item.c)]
    ELSE [err |-> "ok", item |-> Ptr(EmptyMap)]
  ELSE [err |-> "ok", item |-> item]

\* Hamt::loadItem over the store st
loadItem(st, item) ==
  IF item.t = "cid" THEN
    IF item.c \in st THEN [err |-> "ok", item |-> Ptr(item.c)]
    ELSE [err |-> "storage", item |-> item]
  ELSE [err |-> "ok", item |-> item]

\* fault injection for setPairs: the entries of the full leaf are not moved
setPairsNone(st, r, ks, kv, n) == r

RECURSIVE hamtSet(_, _, _, _, _)
RECURSIVE setPairs(_, _, _, _, _)

\* lines 150-153: the entries of the full leaf move into the child
setPairs(st, r, ks, kv, n) ==
  IF ks = <<>> \/ r.err # "ok" THEN r
  ELSE setPairs(st,
                hamtSet(st, r.items, keyToIndices(Head(ks), n), Head(ks),
                        kv[Head(ks)]),
                Tail(ks), kv, n)

\* Hamt::set(Node &, indices, key, value) on the items of the node
hamtSet(st, items, indices, key, value) ==
  IF indices = <<>> THEN [err |-> "kMaxDepth", items |-> items]
  ELSE
    LET index == Head(indices)
    IN IF index \notin DOMAIN items
         THEN [err |-> "ok",
               items |-> Put(items, index, Leaf(Put(EmptyMap, key, value)))]
       ELSE
         LET ld == loadItem(st, items[index])
             items1 == Put(items, index, ld.item)
         IN IF ld.err # "ok" THEN [err |-> ld.err, items |-> items]
            ELSE IF ld.item.t = "ptr" THEN
              LET r == hamtSet(st, ld.item.items, Tail(indices), key, value)
              IN [err |-> r.err, items |-> Put(items1, index, Ptr(r.items))]
            ELSE
              LET leaf == ld.item.kv
              IN IF key \in DOMAIN leaf
                    \/ Cardinality(DOMAIN leaf) < kLeafMax
                   THEN [err |-> "ok",
                         items |-> Put(items1, index,
                                       Leaf(Put(leaf, key, value)))]
                 ELSE
                   LET r0 == hamtSet(st, EmptyMap, Tail(indices), key, value)
                       r1 == setPairs(st, r0, SortedSeq(DOMAIN leaf), leaf,
                                      Len(indices))
                   IN IF r1.err # "ok"
                        THEN [err |-> r1.err, items |-> items1]
                        ELSE [err |-> "ok",
                              items |-> Put(items1, index, Ptr(r1.items))]

\* fault injection for eraseFromLeaf: the whole leaf goes with the key
eraseSlot(items, index, key) == Erase(items, index)

\* lines 181-185: the key leaves its leaf
eraseFromLeaf(items, index, key) ==
  IF Cardinality(DOMAIN items[index].kv) = 1
    THEN Erase(items, index)
    ELSE Put(items, index, Leaf(Erase(items[index].kv, key)))

RECURSIVE mergeLeaves(_, _, _)
\* lines 199-209: the leaves of the node in one leaf; "stop" when an item
\* is not a leaf or the entries exceed kLeafMax
mergeLeaves(items, idx, leaf) ==
  IF idx = <<>> THEN [stop |-> FALSE, leaf |-> leaf]
  ELSE IF items[Head(idx)].t # "leaf" THEN [stop |-> TRUE, leaf |-> leaf]
  ELSE
    LET kv == items[Head(idx)].kv
        all == [k \in DOMAIN leaf \cup DOMAIN kv |->
                  IF k \in DOMAIN leaf THEN leaf[k] ELSE kv[k]]
    IN IF Cardinality(DOMAIN all) > kLeafMax
         THEN [stop |-> TRUE, leaf |-> all]
         ELSE mergeLeaves(items, Tail(idx), all)

\* fault injection for cleanShard: a single leaf is not hoisted
cleanShardNoHoist(item) ==
  IF Cardinality(DOMAIN item.items) = 1 THEN item
  ELSE IF Cardinality(DOMAIN item.items) <= kLeafMax THEN
    LET m == mergeLeaves(item.items, SortedSeq(DOMAIN item.items), EmptyMap)
    IN IF m.stop THEN item ELSE Leaf(m.leaf)
  ELSE item

\* fault injection for cleanShard: several small leaves are not merged
cleanShardNoMerge(item) ==
  IF Cardinality(DOMAIN item.items) = 1 THEN
    LET single_item == item.items[MinOf(DOMAIN item.items)]
    IN IF single_item.t = "leaf" THEN single_item ELSE item
  ELSE item

\* Hamt::cleanShard on an item that holds a Node::Ptr
cleanShard(item) ==
  IF Cardinality(DOMAIN item.items) = 1 THEN
    LET single_item == item.items[MinOf(DOMAIN item.items)]
    IN IF single_item.t = "leaf" THEN single_item ELSE item
  ELSE IF Cardinality(DOMAIN item.items) <= kLeafMax THEN
    LET m == mergeLeaves(item.items, SortedSeq(DOMAIN item.items), EmptyMap)
    IN IF m.stop THEN item ELSE Leaf(m.leaf)
  ELSE item

RECURSIVE hamtRemove(_, _, _, _)
\* Hamt::remove(Node &, indices, key) on the items of the node
hamtRemove(st, items, indices, key) ==
  IF indices = <<>> THEN [err |-> "kMaxDepth", items |-> items]
  ELSE
    LET index == Head(indices)
    IN IF index \notin DOMAIN items
         THEN [err |-> "kNotFound", items |-> items]
       ELSE
         LET ld == loadItem(st, items[index])
             items1 == Put(items, index, ld.item)
         IN IF ld.err # "ok" THEN [err |-> ld.err, items |-> items]
            ELSE IF ld.item.t = "ptr" THEN
              LET r == hamtRemove(st, ld.item.items, Tail(indices), key)
              IN IF r.err # "ok"
                   THEN [err |-> r.err,
                         items |-> Put(items1, index, Ptr(r.items))]
                   ELSE [err |-> "ok",
                         items |-> Put(items1, index,
                                       cleanShard(Ptr(r.items)))]
            ELSE IF key \notin DOMAIN ld.item.kv
              THEN [err |-> "kNotFound", items |-> items1]
            ELSE [err |-> "ok", items |-> eraseFromLeaf(items1, index, key)]

RECURSIVE hamtGet(_, _, _, _)
\* the loop of Hamt::get; the items it loads stay loaded
hamtGet(st, items, indices, key) ==
  IF indices = <<>> THEN [err |-> "kMaxDepth", value |-> 0, items |-> items]
  ELSE
    LET index == Head(indices)
    IN IF index \notin DOMAIN items
         THEN [err |-> "kNotFound", value |-> 0, items |-> items]
       ELSE
         LET ld == loadItem(st, items[index])
             items1 == Put(items, index, ld.item)
         IN IF ld.err # "ok"
              THEN [err |-> ld.err, value |-> 0, items |-> items]
            ELSE IF ld.item.t = "ptr" THEN
              LET r == hamtGet(st, ld.item.items, Tail(indices), key)
              IN [err |-> r.err, value |-> r.value,
                  items |-> Put(items1, index, Ptr(r.items))]
            ELSE IF key \notin DOMAIN ld.item.kv
              THEN [err |-> "kNotFound", value |-> 0, items |-> items1]
            ELSE [err |-> "ok", value |-> ld.item.kv[key], items |-> items1]

RECURSIVE hamtFlush(_, _)
RECURSIVE flushItems(_, _, _)

\* lines 218-220: the items of the node, in the order of the std::map
flushItems(st, items, idx) ==
  IF idx = <<>> THEN [store |-> st, items |-> items]
  ELSE
    LET r == hamtFlush(st, items[Head(idx)])
    IN flushItems(r.store, Put(items, Head(idx), r.item), Tail(idx))

\* fault injection for hamtFlush: the node is written as it is, its loaded
\* children left in place
hamtFlushShallow(st, item) ==
  IF item.t = "ptr"
    THEN [store |-> st \cup {item.items}, item |-> Cid(item.items)]
    ELSE [store |-> st, item |-> item]

\* fault injection for hamtFlush: an item that is a CID already is written
\* again, as an empty node
hamtFlushBlank(st, item) ==
  IF item.t = "ptr" THEN
    LET r == flushItems(st, item.items, SortedSeq(DOMAIN item.items))
    IN [store |-> r.store \cup {r.items}, item |-> Cid(r.items)]
  ELSE IF item.t = "cid" THEN [store |-> st \cup {EmptyMap}, item |-> item]
  ELSE [store |-> st, item |-> item]

\* Hamt::flush(Node::Item &): setCbor puts the node and yields its CID
hamtFlush(st, item) ==
  IF item.t = "ptr" THEN
    LET r == flushItems(st, item.items, SortedSeq(DOMAIN item.items))
    IN [store |-> r.store \cup {r.items}, item |-> Cid(r.items)]
  ELSE [store |-> st, item |-> item]

RECURSIVE flushOrder(_, _)
RECURSIVE flushOrderItems(_, _, _)

\* lines 218-220: the setCbor calls made while the items of the node are
\* flushed, in the order of the std::map
flushOrderItems(st, items, idx) ==
  IF idx = <<>> THEN <<>>
  ELSE
    LET r == hamtFlush(st, items[Head(idx)])
    IN flushOrder(st, items[Head(idx)])
         \o flushOrderItems(r.store, Put(items, Head(idx), r.item), Tail(idx))

\* the nodes Hamt::flush(Node::Item &) hands to setCbor, in the order of the
\* calls: those of the loop over the items, then the node itself (line 221)
flushOrder(st, item) ==
  IF item.t = "ptr" THEN
    flushOrderItems(st, item.items, SortedSeq(DOMAIN item.items))
      \o <<flushItems(st, item.items, SortedSeq(DOMAIN item.items)).items>>
  ELSE <<>>

(***************************************************************************)
(* The calls of Hamt on its root                                           *)
(***************************************************************************)
\* Hamt(store, bit_width): an empty loaded root node
HamtInit ==
  /\ hamt_root = Ptr(EmptyMap)
  /\ hamt_store = {}
  /\ hamt_flushes = 0
  /\ hamt_ref = EmptyMap
  /\ hamt_ret = [op |-> "none", err |-> "ok", present |-> FALSE]

\* fault injection for set: a failed set drops the slot it ran into
setDroppingSlot(st, root, key, value) ==
  LET ld == loadItem(st, root)
      r == hamtSet(st, ld.item.items, keyToIndices(key, -1), key, value)
  IN IF ld.err # "ok" THEN [err |-> ld.err, root |-> root]
     ELSE IF r.err # "ok"
       THEN [err |-> r.err,
             root |-> Ptr(Erase(r.items, Head(keyToIndices(key, -1))))]
     ELSE [err |-> r.err, root |-> Ptr(r.items)]

\* Hamt::set(key, value): the outcome and the root afterwards
set(st, root, key, value) ==
  LET ld == loadItem(st, root)
      r == hamtSet(st, ld.item.items, keyToIndices(key, -1), key, value)
  IN IF ld.err # "ok" THEN [err |-> ld.err, root |-> root]
     ELSE [err |-> r.err, root |-> Ptr(r.items)]

\* Hamt::remove(key)
remove(st, root, key) ==
  LET ld == loadItem(st, root)
      r == hamtRemove(st, ld.item.items, keyToIndices(key, -1), key)
  IN IF ld.err # "ok" THEN [err |-> ld.err, root |-> root]
     ELSE [err |-> r.err, root |-> Ptr(r.items)]

\* Hamt::get(key)
get(st, root, key) ==
  LET ld == loadItem(st, root)
      r == hamtGet(st, ld.item.items, keyToIndices(key, -1), key)
  IN IF ld.err # "ok" THEN [err |-> ld.err, value |-> 0, root |-> root]
     ELSE [err |-> r.err, value |-> r.value, root |-> Ptr(r.items)]

\* fault injection for flush: the root node is not put into the store
flushUnstored(st, root) ==
  [store |-> hamtFlush(st, root).store \ {hamtFlush(st, root).item.c},
   item |-> hamtFlush(st, root).item]

\* Hamt::flush(): the root becomes a CID, which cid() returns
flush(st, root) == hamtFlush(st, root)

\* Hamt::cid(): the CID the root item holds
cid(root) == root.c

\* Hamt(store, const CID &root, bit_width): a Hamt whose root item is the CID
HamtAtCid(root_cid) == Cid(root_cid)

HamtSet(key, value) ==
  /\ LET r == set(hamt_store, hamt_root, key, value)
     IN /\ hamt_root' = r.root
        /\ hamt_ref' = IF r.err = "ok" THEN Put(hamt_ref, key, value)
                       ELSE hamt_ref
        /\ hamt_ret' = [op |-> "set", err |-> r.err, present |-> FALSE]
  /\ UNCHANGED <<hamt_store, hamt_flushes, branchVars, peersVars>>

HamtRemove(key) ==
  /\ LET r == remove(hamt_store, hamt_root, key)
     IN /\ hamt_root' = r.root
        /\ hamt_ref' = IF r.err = "ok" THEN Erase(hamt_ref, key)
                       ELSE hamt_ref
        /\ hamt_ret' = [op |-> "remove", err |-> r.err,
                        present |-> key \in DOMAIN hamt_ref]
  /\ UNCHANGED <<hamt_store, hamt_flushes, branchVars, peersVars>>

HamtGet(key) ==
  /\ LET r == get(hamt_store, hamt_root, key)
     IN /\ hamt_root' = r.root
        /\ hamt_ret' = [op |-> "get", err |-> r.err, present |-> FALSE]
  /\ UNCHANGED <<hamt_store, hamt_flushes, hamt_ref, branchVars, peersVars>>

HamtFlush ==
  /\ hamt_flushes < MaxFlushes
  /\ LET r == flush(hamt_store, hamt_root)
     IN /\ hamt_root' = r.item
        /\ hamt_store' = r.store
  /\ hamt_flushes' = hamt_flushes + 1
  /\ hamt_ret' = [op |-> "flush", err |-> "ok", present |-> FALSE]
  /\ UNCHANGED <<hamt_ref, branchVars, peersVars>>

RECURSIVE hamtVisit(_, _)
RECURSIVE visitItems(_, _, _)

\* lines 242-244: the items of the node, in the order of the std::map; the
\* first error ends the loop
visitItems(st, items, idx) ==
  IF idx = <<>> THEN [err |-> "ok", items |-> items]
  ELSE
    LET r == hamtVisit(st, items[Head(idx)])
    IN IF r.err # "ok"
         THEN [err |-> r.err, items |-> Put(items, Head(idx), r.item)]
         ELSE visitItems(st, Put(items, Head(idx), r.item), Tail(idx))

\* Hamt::visit(Node::Item &, visitor) with a visitor that succeeds; the
\* items it loads stay loaded
hamtVisit(st, item) ==
  LET ld == loadItem(st, item)
  IN IF ld.err # "ok" THEN [err |-> ld.err, item |-> item]
     ELSE IF ld.item.t = "ptr" THEN
       LET r == visitItems(st, ld.item.items,
                           SortedSeq(DOMAIN ld.item.items))
       IN [err |-> r.err, item |-> Ptr(r.items)]
     ELSE [err |-> "ok", item |-> ld.item]

\* Hamt::visit(visitor)
visit(st, root) == hamtVisit(st, root)

HamtVisit ==
  /\ LET r == visit(hamt_store, hamt_root)
     IN /\ hamt_root' = r.item
        /\ hamt_ret' = [op |-> "visit", err |-> r.err, present |-> FALSE]
  /\ UNCHANGED <<hamt_store, hamt_flushes, hamt_ref, branchVars, peersVars>>

(***************************************************************************)
(* The calls of Hamt while the block store does not return block b:        *)
(* ipld->getCbor fails for b (line 229) and answers for the other blocks.  *)
(***************************************************************************)
HamtSetOutage(key, value, b) ==
  /\ LET r == set(hamt_store \ {b}, hamt_root, key, value)
     IN /\ hamt_root' = r.root
        /\ hamt_ref' = IF r.err = "ok" THEN Put(hamt_ref, key, value)
                       ELSE hamt_ref
        /\ hamt_ret' = [op |-> "set", err |-> r.err, present |-> FALSE]
  /\ UNCHANGED <<hamt_store, hamt_flushes, branchVars, peersVars>>

HamtRemoveOutage(key, b) ==
  /\ LET r == remove(hamt_store \ {b}, hamt_root, key)
     IN /\ hamt_root' = r.root
        /\ hamt_ref' = IF r.err = "ok" THEN Erase(hamt_ref, key)
                       ELSE hamt_ref
        /\ hamt_ret' = [op |-> "remove", err |-> r.err,
                        present |-> key \in DOMAIN hamt_ref]
  /\ UNCHANGED <<hamt_store, hamt_flushes, branchVars, peersVars>>

HamtGetOutage(key, b) ==
  /\ LET r == get(hamt_store \ {b}, hamt_root, key)
     IN /\ hamt_root' = r.root
        /\ hamt_ret' = [op |-> "get", err |-> r.err, present |-> FALSE]
  /\ UNCHANGED <<hamt_store, hamt_flushes, hamt_ref, branchVars, peersVars>>

HamtVisitOutage(b) ==
  /\ LET r == visit(hamt_store \ {b}, hamt_root)
     IN /\ hamt_root' = r.item
        /\ hamt_ret' = [op |-> "visit", err |-> r.err, present |-> FALSE]
  /\ UNCHANGED <<hamt_store, hamt_flushes, hamt_ref, branchVars, peersVars>>

\* Hamt::flush() of the Hamt that is flushed more than once
\* (hamt_ret.present records whether the call before it was a flush too)
HamtFlushAgain ==
  /\ hamt_flushes < MaxReflushes
  /\ LET r == flush(hamt_store, hamt_root)
     IN /\ hamt_root' = r.item
        /\ hamt_store' = r.store
  /\ hamt_flushes' = hamt_flushes + 1
  /\ hamt_ret' = [op |-> "flush", err |-> "ok", present |-> hamt_ret.op = "flush"]
  /\ UNCHANGED <<hamt_ref, branchVars, peersVars>>

(***************************************************************************)
(* Peers (peers.cpp): the handlers Peers::start subscribes and the calls   *)
(* of the class.  ratings_ is a multimap: an entry <<rating, peer>> can be *)
(* held more than once, so it is kept with the number of its copies.       *)
(***************************************************************************)
PeerIds == 1..NumPeers

\* the changeRating deltas and the latencies a caller or an event may carry
Deltas == {-50, 0, 50}

Latencies == {0, ten_seconds \div 2, ten_seconds}

\* Peers before start() has seen an event
PeersInit ==
  /\ peers_ = EmptyMap
  /\ ratings_ = EmptyMap

\* the number of entries of the multimap r
ratingsSize(r) ==
  LET RECURSIVE sum(_)
      sum(D) == IF D = {} THEN 0
                ELSE LET e == CHOOSE x \in D : TRUE
                     IN r[e] + sum(D \ {e})
  IN sum(DOMAIN r)

\* ratings_.insert({rating, peer})
insertRating(r, rating, peer) ==
  IF <<rating, peer>> \in DOMAIN r
    THEN Put(r, <<rating, peer>>, r[<<rating, peer>>] + 1)
    ELSE Put(r, <<rating, peer>>, 1)

\* Peers::removeFromRatings(it): the first entry under the peer's rating
\* that names the peer is erased, if there is one
removeFromRatings(r, peer, rating) ==
  IF <<rating, peer>> \notin DOMAIN r THEN r
  ELSE IF r[<<rating, peer>>] = 1 THEN Erase(r, <<rating, peer>>)
  ELSE Put(r, <<rating, peer>>, r[<<rating, peer>>] - 1)

\* the rating_fn_ and rating_latency_fn_ that start() installs when the
\* caller gives none
rating_fn_(current_rating, delta) == current_rating + delta

rating_latency_fn_(current_rating, latency) ==
  IF latency >= ten_seconds THEN current_rating - 100
  ELSE current_rating + ((ten_seconds - latency) \div (ten_seconds \div 100))

\* Peers::changeRating(PeersAndRatings::iterator &, Rating new_rating)
changeRatingTo(P, R, peer, new_rating) ==
  IF new_rating # P[peer]
    THEN [peers |-> Put(P, peer, new_rating),
          ratings |-> insertRating(removeFromRatings(R, peer, P[peer]),
                                   new_rating, peer)]
    ELSE [peers |-> P, ratings |-> R]

\* Peers::changeRating(const PeerId &, Rating delta)
changeRating(P, R, peer, delta) ==
  IF delta # 0 /\ peer \in DOMAIN P
    THEN changeRatingTo(P, R, peer, rating_fn_(P[peer], delta))
    ELSE [peers |-> P, ratings |-> R]

\* Peers::isConnected
isConnected(P, peer) == peer \in DOMAIN P

\* Peers::selectBestPeer: 0 stands for boost::none; otherwise the peers an
\* entry at the begin of ratings_ (the greatest rating) can name
selectBestPeer(R) ==
  IF DOMAIN R = {} THEN {0}
  ELSE {e[2] : e \in {x \in DOMAIN R : \A y \in DOMAIN R : y[1] <= x[1]}}

\* the handler of the peer-connected event; found: every required protocol
\* occurs in the protocols of the event (lines 44-61)
PeerConnected(p, found) ==
  /\ ratingsSize(ratings_) < MaxRatingEntries
  /\ IF found
       THEN /\ peers_' = Put(peers_, p, 0)
            /\ ratings_' = insertRating(ratings_, 0, p)
       ELSE UNCHANGED peersVars
  /\ UNCHANGED <<branchVars, hamtVars>>

\* the handler of the peer-disconnected event
PeerDisconnected(p) ==
  /\ IF p \in DOMAIN peers_
       THEN /\ ratings_' = removeFromRatings(ratings_, p, peers_[p])
            /\ peers_' = Erase(peers_, p)
       ELSE UNCHANGED peersVars
  /\ UNCHANGED <<branchVars, hamtVars>>

\* the handler of the peer-latency event
PeerLatency(p, latency) ==
  /\ p \in DOMAIN peers_ =>
       /\ rating_latency_fn_(peers_[p], latency) <= MaxRating
       /\ rating_latency_fn_(peers_[p], latency) >= -MaxRating
  /\ IF p \in DOMAIN peers_
       THEN LET r == changeRatingTo(peers_, ratings_, p,
                                    rating_latency_fn_(peers_[p], latency))
            IN peers_' = r.peers /\ ratings_' = r.ratings
       ELSE UNCHANGED peersVars
  /\ UNCHANGED <<branchVars, hamtVars>>

\* a call of Peers::changeRating(peer, delta)
ChangeRating(p, delta) ==
  /\ p \in DOMAIN peers_ =>
       /\ rating_fn_(peers_[p], delta) <= MaxRating
       /\ rating_fn_(peers_[p], delta) >= -MaxRating
  /\ LET r == changeRating(peers_, ratings_, p, delta)
     IN peers_' = r.peers /\ ratings_' = r.ratings
  /\ UNCHANGED <<branchVars, hamtVars>>

(***************************************************************************)
(* The state machine of Branches under ChainDb::storeTipset                *)
(***************************************************************************)
BranchesInit ==
  /\ fail = "none"
  /\ objs = <<>>
  /\ all_branches_ = EmptyMap
  /\ heads_ = EmptyMap
  /\ unloaded_roots_ = EmptyMap
  /\ genesis_branch_ = NullPtr
  /\ current_chain_ = EmptyMap
  /\ current_top_branch_ = kNoBranch
  /\ current_height_ = 0
  /\ index_db_ = EmptyMap
  /\ pc = "idle"
  /\ cur = NoHash
  /\ pos = NoPosition
  /\ changes = NoChanges
  /\ ret = [op |-> "none", err |-> "ok"]
  /\ ever_added = {}
  /\ in_order = TRUE

\* the fields of Branches after a call that returned
Commit(S) ==
  /\ UNCHANGED <<hamtVars, peersVars>>
  /\ objs' = S.objs
  /\ all_branches_' = S.all_branches_
  /\ heads_' = S.heads_
  /\ unloaded_roots_' = S.unloaded_roots_
  /\ genesis_branch_' = S.genesis_branch_
  /\ current_chain_' = S.current_chain_
  /\ current_top_branch_' = S.current_top_branch_
  /\ current_height_' = S.current_height_

\* the process died inside the call
Die(kind, op) ==
  /\ fail' = kind
  /\ UNCHANGED <<hamtVars, peersVars>>
  /\ ret' = [op |-> op, err |-> kind]
  /\ UNCHANGED <<ndebug, objs, all_branches_, heads_, unloaded_roots_,
                 genesis_branch_, current_chain_, current_top_branch_,
                 current_height_, index_db_, pc, cur, pos, changes, ever_added,
                 in_order>>

\* the call returned an error and changed nothing
Refuse(err, op) ==
  /\ ret' = [op |-> op, err |-> err]
  /\ UNCHANGED <<hamtVars, peersVars>>
  /\ UNCHANGED <<ndebug, fail, objs, all_branches_, heads_, unloaded_roots_,
                 genesis_branch_, current_chain_, current_top_branch_,
                 current_height_, index_db_, pc, cur, pos, changes, ever_added,
                 in_order>>

Range(q) == {q[i] : i \in DOMAIN q}

\* IndexDb::renameBranch
renameIndex(ix, r) ==
  [x \in DOMAIN ix |->
     IF ix[x] = r.old_id /\ (~r.split \/ HeightOf(x) > r.above_height)
       THEN r.new_id ELSE ix[x]]

StoreGenesis ==
  /\ pc = "idle" /\ fail = "none"
  /\ LET r == storeGenesis(This, 1, HeightOf(1))
     IN IF r.err # "ok" THEN Refuse(r.err, "storeGenesis")
        ELSE IF r.S.fail # "none" THEN Die(r.S.fail, "storeGenesis")
        ELSE /\ Commit(r.S)
             /\ index_db_' = Put(index_db_, 1, kGenesisBranch)
             /\ changes' = NoChanges
             /\ ret' = [op |-> "storeGenesis", err |-> "ok"]
             /\ cur' = 1
             /\ pos' = [NoPosition EXCEPT !.assigned_branch = kGenesisBranch]
             /\ UNCHANGED <<ndebug, fail, pc, ever_added, in_order>>

\* ChainDb::storeTipset, step 2: ask the Branch DAG for the position
FindStorePosition(t) ==
  /\ pc = "idle" /\ fail = "none"
  /\ t \notin DOMAIN index_db_
  /\ t = 1 \/ 1 \in DOMAIN index_db_
  /\ LET parent_hash == ParentOf(t)
         known == parent_hash \in DOMAIN index_db_
         parent_branch == IF known THEN index_db_[parent_hash] ELSE kNoBranch
         parent_height == IF known THEN HeightOf(parent_hash) ELSE 0
         r == findStorePosition(This, t, HeightOf(t), parent_hash,
                                parent_branch, parent_height)
     IN IF r.err # "ok" THEN Refuse(r.err, "findStorePosition")
        ELSE /\ pc' = "found"
             /\ cur' = t
             /\ pos' = r.pos
             /\ ret' = [op |-> "findStorePosition", err |-> "ok"]
             /\ UNCHANGED <<hamtVars, peersVars>>
             /\ UNCHANGED <<ndebug, fail, objs, all_branches_, heads_,
                            unloaded_roots_, genesis_branch_, current_chain_,
                            current_top_branch_, current_height_, index_db_,
                            changes, ever_added, in_order>>

\* the stored tipsets of branch id above the height, lowest first
tipsetsAbove(id, height) ==
  {x \in DOMAIN index_db_ : index_db_[x] = id /\ HeightOf(x) > height}

lowestOf(S) ==
  CHOOSE x \in S : \A y \in S :
     HeightOf(x) < HeightOf(y) \/ (HeightOf(x) = HeightOf(y) /\ x <= y)

\* ChainDb::storeTipset, step 3: execute the split
SplitBranch ==
  /\ pc = "found" /\ fail = "none"
  /\ pos.rename.present /\ pos.rename.split
  /\ LET above == tipsetsAbove(pos.rename.old_id, pos.rename.above_height)
     IN IF above = {} THEN
          /\ pc' = "idle"
          /\ ret' = [op |-> "splitBranch",
                     err |-> "CHAIN_DB_DATA_INTEGRITY_ERROR"]
          /\ UNCHANGED <<hamtVars, peersVars>>
          /\ UNCHANGED <<ndebug, fail, objs, all_branches_, heads_,
                         unloaded_roots_, genesis_branch_, current_chain_,
                         current_top_branch_, current_height_, index_db_, cur,
                         pos, changes, ever_added, in_order>>
        ELSE
          LET new_bottom == lowestOf(above)
              S == splitBranch(This, ParentOf(cur), new_bottom,
                               HeightOf(new_bottom), pos.rename)
          IN IF S.fail # "none" THEN Die(S.fail, "splitBranch")
             ELSE /\ Commit(S)
                  /\ index_db_' = renameIndex(index_db_, pos.rename)
                  /\ pc' = "split"
                  /\ ret' = [op |-> "splitBranch", err |-> "ok"]
                  /\ UNCHANGED <<ndebug, fail, cur, pos, changes, ever_added,
                                 in_order>>

\* ChainDb::storeTipset, steps 4-5: persist, then Branches::storeTipset
StoreTipset ==
  /\ fail = "none"
  /\ \/ pc = "found" /\ ~(pos.rename.present /\ pos.rename.split)
     \/ pc = "split"
  /\ LET S == storeTipset(This, cur, HeightOf(cur), ParentOf(cur), pos)
         renamed == IF pos.rename.present /\ ~pos.rename.split
                      THEN renameIndex(index_db_, pos.rename) ELSE index_db_
     IN IF S.fail # "none" THEN Die(S.fail, "storeTipset")
        ELSE /\ Commit(S)
             /\ index_db_' = Put(renamed, cur, pos.assigned_branch)
             /\ changes' = S.changes
             /\ ever_added' = ever_added \cup Range(S.changes.added)
             /\ in_order' = (in_order /\ cur <= Trunk
                               /\ DOMAIN index_db_ = 1..(cur - 1))
             /\ pc' = "idle"
             /\ ret' = [op |-> "storeTipset", err |-> "ok"]
             /\ UNCHANGED <<ndebug, fail, cur, pos>>

SetCurrentHead(head_branch, height) ==
  /\ pc = "idle" /\ fail = "none"
  /\ LET r == setCurrentHead(This, head_branch, height)
     IN IF r.S.fail # "none" THEN Die(r.S.fail, "setCurrentHead")
        ELSE /\ Commit(r.S)
             /\ ret' = [op |-> "setCurrentHead", err |-> r.err]
             /\ UNCHANGED <<ndebug, fail, index_db_, pc, cur, pos, changes,
                            ever_added, in_order>>

Init == ndebug \in BOOLEAN /\ BranchesInit /\ HamtInit /\ PeersInit

\* the Branch DAG under storeGenesis and ChainDb::storeTipset
Next ==
  \/ StoreGenesis
  \/ \E t \in Tipsets : FindStorePosition(t)
  \/ SplitBranch
  \/ StoreTipset

Spec == Init /\ [][Next]_vars

\* the same, with the current head moved between the stores
NextChain ==
  \/ Next
  \/ \E b \in DOMAIN all_branches_ \cup {kNoBranch, newBranchId(This)} :
       \E h \in 0..MaxHeight : SetCurrentHead(b, h)

SpecChain == Init /\ [][NextChain]_vars

(***************************************************************************)
(* Branches::init at start-up.  The argument is what was read from the     *)
(* index: for each id 1..NumInitBranches no entry, a null pointer, a       *)
(* record stored under a wrong id, or a record with any heights, parent    *)
(* and, when it has no parent, with or without a parent_hash; optionally   *)
(* an entry under kNoBranch.  The records carry the default forks = {} and *)
(* synced_to_genesis = false of BranchInfo, pairwise different tops, and   *)
(* the top of the parent as parent_hash when they have a parent.           *)
(***************************************************************************)
InitIds == 1..NumInitBranches

RootHash == NumInitBranches + 2

InitEntries ==
  {[kind |-> k, bottom_height |-> 0, top_height |-> 0, parent |-> kNoBranch,
    parent_hash |-> NoHash] : k \in {"absent", "null", "badid"}}
  \cup
  {[kind |-> "info", bottom_height |-> bh, top_height |-> th,
    parent |-> kNoBranch, parent_hash |-> ph] :
     bh \in 0..MaxInitHeight, th \in 0..MaxInitHeight, ph \in {NoHash, RootHash}}
  \cup
  {[kind |-> "info", bottom_height |-> bh, top_height |-> th, parent |-> p,
    parent_hash |-> p + 1] :
     bh \in 0..MaxInitHeight, th \in 0..MaxInitHeight, p \in InitIds}

\* the BranchInfo read for the entry e under the key id
loadedInfo(id, e) ==
  [NewBranchInfo EXCEPT
     !.id = IF e.kind = "badid" THEN id + 1 ELSE id,
     !.top = id + 1, !.bottom = id + 1,
     !.top_height = e.top_height, !.bottom_height = e.bottom_height,
     !.parent = e.parent, !.parent_hash = e.parent_hash]

\* entries: key -> entry, with the entry under kNoBranch if zero
loadedKeys(entries, zero) ==
  {k \in DOMAIN entries : entries[k].kind # "absent"}
    \cup (IF zero THEN {kNoBranch} ELSE {})

loadedObjs(entries, zero) ==
  {k \in loadedKeys(entries, zero) : k = kNoBranch \/ entries[k].kind # "null"}

loadedHeap(entries, zero) ==
  LET ids == SortedSeq(loadedObjs(entries, zero))
  IN [i \in 1..Len(ids) |->
        IF ids[i] = kNoBranch THEN NewBranchInfo
        ELSE loadedInfo(ids[i], entries[ids[i]])]

loadedMap(entries, zero) ==
  [k \in loadedKeys(entries, zero) |->
     IF k \in loadedObjs(entries, zero)
       THEN Cardinality({j \in loadedObjs(entries, zero) : j <= k})
       ELSE NullPtr]

InitBranches ==
  /\ pc = "idle" /\ fail = "none" /\ ret.op = "none"
  /\ \E entries \in [InitIds -> InitEntries] : \E zero \in BOOLEAN :
       LET r == init(This, loadedMap(entries, zero),
                     loadedHeap(entries, zero))
       IN IF r.S.fail # "none" THEN Die(r.S.fail, "init")
          ELSE /\ Commit(r.S)
               /\ changes' = r.S.changes
               /\ ret' = [op |-> "init", err |-> r.err]
               /\ UNCHANGED <<ndebug, fail, index_db_, pc, cur, pos,
                              ever_added, in_order>>

NextInit == InitBranches

SpecInit == Init /\ [][NextInit]_vars

InitHamt == ndebug = FALSE /\ BranchesInit /\ HamtInit /\ PeersInit

\* a Hamt whose nodes are all loaded, under set, remove and get
NextHamt ==
  \/ \E key \in Keys, value \in Values : HamtSet(key, value)
  \/ \E key \in Keys : HamtRemove(key)
  \/ \E key \in Keys : HamtGet(key)

SpecHamt == InitHamt /\ [][NextHamt]_vars

\* a Hamt that is also flushed, its nodes being loaded again on demand
NextHamtFlush ==
  \/ \E key \in FlushKeys, value \in FlushValues : HamtSet(key, value)
  \/ \E key \in FlushKeys : HamtRemove(key)
  \/ \E key \in FlushKeys : HamtGet(key)
  \/ HamtFlush

SpecHamtFlush == InitHamt /\ [][NextHamtFlush]_vars

OutageKeys == 1..NumOutageKeys

\* a flushed Hamt over a block store that fails to return one block at a
\* time
NextHamtOutage ==
  \/ \E key \in OutageKeys, value \in FlushValues : HamtSet(key, value)
  \/ \E key \in OutageKeys : HamtRemove(key)
  \/ \E key \in OutageKeys : HamtGet(key)
  \/ HamtVisit
  \/ HamtFlush
  \/ \E b \in hamt_store :
       \E key \in OutageKeys, value \in FlushValues :
         HamtSetOutage(key, value, b)
  \/ \E b \in hamt_store : \E key \in OutageKeys : HamtRemoveOutage(key, b)
  \/ \E b \in hamt_store : \E key \in OutageKeys : HamtGetOutage(key, b)
  \/ \E b \in hamt_store : HamtVisitOutage(b)

SpecHamtOutage == InitHamt /\ [][NextHamtOutage]_vars

\* a Hamt that is changed and flushed again after its first flush
NextHamtReopen ==
  \/ \E key \in OutageKeys, value \in FlushValues : HamtSet(key, value)
  \/ \E key \in OutageKeys : HamtRemove(key)
  \/ \E key \in OutageKeys : HamtGet(key)
  \/ HamtFlushAgain

SpecHamtReopen == InitHamt /\ [][NextHamtReopen]_vars

\* Peers under the events of the host and the changeRating calls
NextPeers ==
  \/ \E p \in PeerIds, found \in BOOLEAN : PeerConnected(p, found)
  \/ \E p \in PeerIds : PeerDisconnected(p)
  \/ \E p \in PeerIds, latency \in Latencies : PeerLatency(p, latency)
  \/ \E p \in PeerIds, delta \in Deltas : ChangeRating(p, delta)

SpecPeers == InitHamt /\ [][NextPeers]_vars

(***************************************************************************)
(* Observers                                                               *)
(***************************************************************************)
\* the BranchInfo all_branches_ holds under id
Branch(id) == objs[all_branches_[id]]

BranchIds == DOMAIN all_branches_

\* the last call was a Branches::storeTipset that returned
Stored == pc = "idle" /\ fail = "none" /\ ret.op = "storeTipset"

(***************************************************************************)
(* C1: heads_ is keyed by exactly the tops of the branches without forks   *)
(* (or holding an unloaded root), and every key h maps to a branch of      *)
(* all_branches_ whose top is h.                                           *)
(***************************************************************************)
HeadTops ==
  {Branch(id).top : id \in {i \in BranchIds : Branch(i).forks = {}}}
    \cup {objs[unloaded_roots_[h]].top : h \in DOMAIN unloaded_roots_}

C1_HeadsExact ==
  /\ DOMAIN heads_ \subseteq HeadTops
  /\ {Branch(id).top : id \in {i \in BranchIds : Branch(i).forks = {}}}
       \subseteq DOMAIN heads_
  /\ \A h \in DOMAIN heads_ :
       /\ \E id \in BranchIds : all_branches_[id] = heads_[h]
       /\ objs[heads_[h]].top = h

(***************************************************************************)
(* C2: storeTipset that extends a head branch leaves the hash and the      *)
(* height of the stored tipset in that branch's top and top_height.        *)
(***************************************************************************)
ExtendedHead ==
  /\ Stored
  /\ pos.on_top_of_branch = pos.assigned_branch
  /\ pos.at_bottom_of_branch = kNoBranch

C2_ExtendSetsTop ==
  ExtendedHead =>
    /\ pos.assigned_branch \in BranchIds
    /\ Branch(pos.assigned_branch).top = cur
    /\ Branch(pos.assigned_branch).top_height = HeightOf(cur)

(***************************************************************************)
(* C3: for a chain stored in order on top of genesis every storeTipset     *)
(* returns removed = [previous tipset], added = [new tipset], no split is  *)
(* requested, only the genesis branch exists and the new tipset is the     *)
(* only head.                                                              *)
(***************************************************************************)
C3_LinearExtension ==
  (Stored /\ in_order /\ cur # 1) =>
    /\ changes = [removed |-> <<ParentOf(cur)>>, added |-> <<cur>>]
    /\ ~pos.rename.present
    /\ BranchIds = {kGenesisBranch}
    /\ DOMAIN heads_ = {cur}

C3_Witness == Stored /\ in_order /\ cur = Trunk /\ Trunk >= 3

(***************************************************************************)
(* C4: a merge on top of a synced head branch returns the previous top of  *)
(* the parent branch in removed and the tops of all heads of the merged    *)
(* subgraph in added.                                                      *)
(***************************************************************************)
RECURSIVE LeafTops(_, _)
\* the tops of the branches without forks below the object at ptr
LeafTops(ptr, fuel) ==
  IF fuel = 0 THEN {}
  ELSE IF objs[ptr].forks = {} THEN {objs[ptr].top}
  ELSE UNION {LeafTops(all_branches_[f], fuel - 1) :
                f \in objs[ptr].forks \cap BranchIds}

Merged ==
  /\ Stored
  /\ pos.rename.present /\ ~pos.rename.split
  /\ pos.assigned_branch \in BranchIds

C4_MergeChanges ==
  (Merged /\ Branch(pos.assigned_branch).synced_to_genesis) =>
    /\ ParentOf(cur) \in Range(changes.removed)
    /\ Range(changes.added)
         = LeafTops(all_branches_[pos.assigned_branch], Len(objs))

(***************************************************************************)
(* C5: storeTipset returns empty removed and added lists whenever the      *)
(* branch that received the tipset is not synced_to_genesis afterwards.    *)
(***************************************************************************)
C5_UnsyncedSilent ==
  (Stored /\ pos.assigned_branch \in BranchIds
          /\ ~Branch(pos.assigned_branch).synced_to_genesis) =>
    changes = NoChanges

\* an unsynced branch was forked
C5_Witness ==
  /\ Stored
  /\ pos.assigned_branch \in BranchIds
  /\ ~Branch(pos.assigned_branch).synced_to_genesis
  /\ pos.on_top_of_branch # kNoBranch
  /\ pos.assigned_branch # pos.on_top_of_branch

(***************************************************************************)
(* C6: every hash in a removed list was in the added list of an earlier    *)
(* HeadChanges.                                                            *)
(***************************************************************************)
C6_RemovedWasAdded == [][Range(changes'.removed) \subseteq ever_added]_vars

\* the same, leaving the genesis tipset aside: storeGenesis returns no
\* HeadChanges, so genesis is never in an added list
RemovedWasAddedAboveGenesis == [][Range(changes'.removed) \ {1} \subseteq ever_added]_vars

(***************************************************************************)
(* Branches::getCommonRoot                                                 *)
(***************************************************************************)
RECURSIVE commonRootLoop(_, _, _)
\* lines 66-80; the result is the address of the branch or an error
commonRootLoop(a, b, fuel) ==
  IF a = b THEN [err |-> "ok", ptr |-> all_branches_[a]]
  ELSE IF fuel = 0 THEN [err |-> "no termination", ptr |-> NullPtr]
  ELSE IF Branch(a).bottom_height <= Branch(b).bottom_height THEN
    IF Branch(b).parent = kNoBranch
      THEN [err |-> "BRANCHES_NO_COMMON_ROOT", ptr |-> NullPtr]
    ELSE IF Branch(b).parent \notin BranchIds
      THEN [err |-> "BRANCHES_BRANCH_NOT_FOUND", ptr |-> NullPtr]
    ELSE commonRootLoop(a, Branch(b).parent, fuel - 1)
  ELSE
    IF Branch(a).parent = kNoBranch
      THEN [err |-> "BRANCHES_NO_COMMON_ROOT", ptr |-> NullPtr]
    ELSE IF Branch(a).parent \notin BranchIds
      THEN [err |-> "BRANCHES_BRANCH_NOT_FOUND", ptr |-> NullPtr]
    ELSE commonRootLoop(Branch(a).parent, b, fuel - 1)

getCommonRoot(a, b) ==
  IF a = kNoBranch \/ b = kNoBranch
    THEN [err |-> "BRANCHES_NO_COMMON_ROOT", ptr |-> NullPtr]
  ELSE IF a \notin BranchIds \/ b \notin BranchIds
    THEN [err |-> "BRANCHES_BRANCH_NOT_FOUND", ptr |-> NullPtr]
  ELSE commonRootLoop(a, b, 2 * Len(objs) + 2)

(***************************************************************************)
(* C10: getCommonRoot(a, b) and getCommonRoot(b, a) have the same outcome: *)
(* the same branch, or an error in both cases.                             *)
(***************************************************************************)
C10_CommonRootSymmetric ==
  \A a, b \in BranchIds \cup {kNoBranch} :
    /\ (getCommonRoot(a, b).err = "ok") = (getCommonRoot(b, a).err = "ok")
    /\ getCommonRoot(a, b).ptr = getCommonRoot(b, a).ptr

\* the loop of getCommonRoot ends
CommonRootTerminates ==
  \A a, b \in BranchIds : getCommonRoot(a, b).err # "no termination"

(***************************************************************************)
(* Observers of the Hamt                                                   *)
(***************************************************************************)
AllKeys == Keys \cup FlushKeys

\* what get(key) returns to its caller in the current state
Got(key) ==
  [err |-> get(hamt_store, hamt_root, key).err,
   value |-> get(hamt_store, hamt_root, key).value]

\* what the reference map holds for key
Expected(key) ==
  IF key \in DOMAIN hamt_ref THEN [err |-> "ok", value |-> hamt_ref[key]]
  ELSE [err |-> "kNotFound", value |-> 0]

RECURSIVE Loaded(_)
\* the trie below item with every node loaded from the store
Loaded(item) ==
  IF item.t = "leaf" THEN item
  ELSE LET its == IF item.t = "cid" THEN item.c ELSE item.items
       IN Ptr([i \in DOMAIN its |-> Loaded(its[i])])

RECURSIVE CountEntries(_)
RECURSIVE SumEntries(_, _)
SumEntries(items, idx) ==
  IF idx = {} THEN 0
  ELSE CountEntries(items[MinOf(idx)]) + SumEntries(items, idx \ {MinOf(idx)})

\* number of (key, value) entries below a loaded item
CountEntries(item) ==
  IF item.t = "leaf" THEN Cardinality(DOMAIN item.kv)
  ELSE SumEntries(item.items, DOMAIN item.items)

(***************************************************************************)
(* C7: get(k) returns what a reference map holds for k after the same set  *)
(* and remove calls and NotFound for a key the map does not hold, and a    *)
(* remove of a key the map does not hold returns NotFound.                 *)
(***************************************************************************)
Removed == hamt_ret.op = "remove" /\ hamt_ret.err = "ok"

C7_RefinesMap ==
  /\ \A key \in AllKeys : Got(key) = Expected(key)
  /\ (hamt_ret.op = "remove" /\ ~hamt_ret.present)
       => hamt_ret.err = "kNotFound"

\* a key was removed from a trie that had been flushed and holds other keys
C7_Witness ==
  /\ Removed
  /\ hamt_flushes > 0
  /\ Cardinality(DOMAIN hamt_ref) >= kLeafMax

(***************************************************************************)
(* C8: the shape of the trie, and so the CID it flushes to, is a function  *)
(* of the (key, value) pairs it holds: it is the shape in which every      *)
(* bucket of at most kLeafMax entries is a leaf and every larger bucket a  *)
(* node, whatever the order of the calls that led to it.                   *)
(***************************************************************************)
RECURSIVE CanonItems(_, _)
\* the items of the node at depth d that holds the keys ks of hamt_ref
CanonItems(ks, d) ==
  LET at(k) == keyToIndices(k, -1)[d + 1]
      bucket(i) == {k \in ks : at(k) = i}
  IN [i \in {at(k) : k \in ks} |->
        IF Cardinality(bucket(i)) <= kLeafMax
          THEN Leaf([k \in bucket(i) |-> hamt_ref[k]])
          ELSE Ptr(CanonItems(bucket(i), d + 1))]

C8_ShapeIsCanonical ==
  /\ Loaded(hamt_root) = Ptr(CanonItems(DOMAIN hamt_ref, 0))
  /\ flush(hamt_store, hamt_root).item
       = flush({}, Ptr(CanonItems(DOMAIN hamt_ref, 0))).item

\* more than one leaf of entries is left after a remove
C8_Witness ==
  /\ Removed
  /\ Cardinality(DOMAIN hamt_ref) > kLeafMax
  /\ hamt_flushes > 0

(***************************************************************************)
(* C9: after a successful remove no node below the root has a single       *)
(* child that is a leaf, and no node below the root holds at most kLeafMax *)
(* entries.                                                                *)
(***************************************************************************)
RECURSIVE AllClean(_)
\* every node below the loaded items is in the shape cleanShard leaves
AllClean(items) ==
  \A i \in DOMAIN items :
    \/ items[i].t = "leaf"
    \/ /\ ~(/\ Cardinality(DOMAIN items[i].items) = 1
            /\ \A j \in DOMAIN items[i].items : items[i].items[j].t = "leaf")
       /\ CountEntries(items[i]) > kLeafMax
       /\ AllClean(items[i].items)

C9_CleanAfterRemove == Removed => AllClean(Loaded(hamt_root).items)

\* a node is left below the root after the remove
C9_Witness ==
  /\ Removed
  /\ hamt_flushes > 0
  /\ \E i \in DOMAIN Loaded(hamt_root).items :
       Loaded(hamt_root).items[i].t = "ptr"

(***************************************************************************)
(* Ancestry by parent ids                                                  *)
(***************************************************************************)
RECURSIVE AncestorsOrSelf(_, _)
\* a and the branches above it, as far as the parent ids name branches
AncestorsOrSelf(a, fuel) ==
  IF a \notin BranchIds \/ fuel = 0 THEN {}
  ELSE {a} \cup AncestorsOrSelf(Branch(a).parent, fuel - 1)

Ancestry(a) == AncestorsOrSelf(a, Cardinality(BranchIds))

CommonAncestors(a, b) == Ancestry(a) \cap Ancestry(b)

\* the common ancestor that every common ancestor is an ancestor of
Nearest(a, b) ==
  CHOOSE c \in CommonAncestors(a, b) : CommonAncestors(a, b) \subseteq Ancestry(c)

(***************************************************************************)
(* C11: getCommonRoot(a, b) returns the nearest common ancestor-or-self of *)
(* a and b by parent pointers, and NoCommonRoot exactly when they have no  *)
(* common ancestor; so for the two branches above a split it returns the   *)
(* truncated lower branch.                                                 *)
(***************************************************************************)
C11_NearestCommonAncestor ==
  \A a, b \in BranchIds :
    IF CommonAncestors(a, b) = {}
      THEN getCommonRoot(a, b).err = "BRANCHES_NO_COMMON_ROOT"
      ELSE /\ getCommonRoot(a, b).err = "ok"
           /\ getCommonRoot(a, b).ptr = all_branches_[Nearest(a, b)]

(***************************************************************************)
(* C12: getRoute(from, to) succeeds exactly when from is an                *)
(* ancestor-or-self of to, and then returns the path from from to to in    *)
(* which each element is the parent of the next; otherwise it returns      *)
(* NoRoute.                                                                *)
(***************************************************************************)
IsPath(route, from, to) ==
  /\ route # <<>>
  /\ route[1] = from
  /\ route[Len(route)] = to
  /\ \A i \in 1..(Len(route) - 1) :
       /\ route[i + 1] \in BranchIds
       /\ Branch(route[i + 1]).parent = route[i]

C12_RouteIsPath ==
  \A from, to \in BranchIds :
    IF from \in Ancestry(to)
      THEN /\ getRoute(This, from, to).err = "ok"
           /\ IsPath(getRoute(This, from, to).route, from, to)
      ELSE getRoute(This, from, to).err = "BRANCHES_NO_ROUTE"

\* a route of three branches exists
C12_Witness ==
  \E from, to \in BranchIds :
    /\ getRoute(This, from, to).err = "ok"
    /\ Len(getRoute(This, from, to).route) >= 3

(***************************************************************************)
(* setCurrentHead as a caller may invoke it between two ChainDb calls      *)
(***************************************************************************)
HeadArgs == (BranchIds \cup {current_top_branch_, newBranchId(This)}) \ {kNoBranch}

CurrentUnchanged(S) ==
  /\ S.current_chain_ = current_chain_
  /\ S.current_top_branch_ = current_top_branch_
  /\ S.current_height_ = current_height_

\* what the contract prescribes for setCurrentHead(b, h) in this state
HeadVerdict(b, h) ==
  IF b \notin BranchIds THEN "BRANCHES_HEAD_NOT_FOUND"
  ELSE IF ~Branch(b).synced_to_genesis THEN "BRANCHES_HEAD_NOT_SYNCED"
  ELSE IF h < Branch(b).bottom_height \/ h > Branch(b).top_height
    THEN "BRANCHES_HEIGHT_MISMATCH"
  ELSE "ok"

(***************************************************************************)
(* C13: in any reachable state setCurrentHead(b, h) with b # kNoBranch     *)
(* succeeds only if b exists, is synced to genesis and                     *)
(* bottom_height <= h <= top_height; otherwise it returns HeadNotFound,    *)
(* HeadNotSynced or HeightMismatch respectively and leaves current_chain_, *)
(* current_top_branch_ and current_height_ unchanged.                      *)
(***************************************************************************)
C13_HeadValidated ==
  (pc = "idle" /\ fail = "none") =>
    \A b \in HeadArgs : \A h \in 0..MaxHeight :
      HeadVerdict(b, h) # "ok" =>
        /\ setCurrentHead(This, b, h).S.fail = "none"
        /\ setCurrentHead(This, b, h).err = HeadVerdict(b, h)
        /\ CurrentUnchanged(setCurrentHead(This, b, h).S)

\* the branches of current_chain_ whose [bottom_height, top_height] contains h
Covering(h) ==
  {p \in {current_chain_[k] : k \in DOMAIN current_chain_} :
     objs[p].bottom_height <= h /\ h <= objs[p].top_height}

HeadWasSet ==
  /\ fail = "none"
  /\ ret = [op |-> "setCurrentHead", err |-> "ok"]
  /\ current_top_branch_ # kNoBranch

(***************************************************************************)
(* C14: after a successful setCurrentHead(B, h), every height in [0, h]    *)
(* is contained in the [bottom_height, top_height] interval of exactly one *)
(* branch of current_chain_.                                               *)
(***************************************************************************)
C14_OneCoveringBranch ==
  HeadWasSet => \A h \in 0..current_height_ : Cardinality(Covering(h)) = 1

HeadIsSet == pc = "idle" /\ fail = "none" /\ current_top_branch_ # kNoBranch

(***************************************************************************)
(* C15: whenever a current head is set, after any further storeTipset,     *)
(* splitBranch and setCurrentHead calls, getBranchAtHeight(h, true) for    *)
(* every h up to the current height returns the id of a branch of the      *)
(* current chain whose [bottom_height, top_height] contains h, and         *)
(* kGenesisBranch when h <= the genesis branch's top_height.               *)
(***************************************************************************)
C15_BranchAtHeight ==
  HeadIsSet =>
    \A h \in 0..current_height_ :
      /\ getBranchAtHeight(This, h, TRUE).err = "ok"
      /\ \E p \in Covering(h) : objs[p].id = getBranchAtHeight(This, h, TRUE).id
      /\ (genesis_branch_ # NullPtr /\ h <= objs[genesis_branch_].top_height)
           => getBranchAtHeight(This, h, TRUE).id = kGenesisBranch

(***************************************************************************)
(* C16: getBranchAtHeight returns NoCurrentChain whenever no current head  *)
(* is set, also after setCurrentHead(kNoBranch, _) cleared it; with a      *)
(* current head set and h above the current height it returns kNoBranch    *)
(* when must_exist is false and BranchNotFound when must_exist is true.    *)
(***************************************************************************)
C16_NoChainNoBranch ==
  fail = "none" =>
    \A h \in 0..(MaxHeight + 1) :
      IF current_top_branch_ = kNoBranch
        THEN /\ getBranchAtHeight(This, h, TRUE).err = "BRANCHES_NO_CURRENT_CHAIN"
             /\ getBranchAtHeight(This, h, FALSE).err = "BRANCHES_NO_CURRENT_CHAIN"
        ELSE h > current_height_ =>
               /\ getBranchAtHeight(This, h, TRUE).err = "BRANCHES_BRANCH_NOT_FOUND"
               /\ getBranchAtHeight(This, h, FALSE) = [err |-> "ok", id |-> kNoBranch]

\* the head was cleared by setCurrentHead(kNoBranch, _) while branches exist
C16_Witness ==
  /\ ret = [op |-> "setCurrentHead", err |-> "ok"]
  /\ current_top_branch_ = kNoBranch
  /\ Cardinality(BranchIds) >= 2
  /\ getBranchAtHeight(This, 0, TRUE).err = "BRANCHES_NO_CURRENT_CHAIN"

GenesisStored ==
  fail = "none" /\ ret = [op |-> "storeGenesis", err |-> "ok"]

(***************************************************************************)
(* C17: after storeGenesis(G) on an empty graph the branch kGenesisBranch  *)
(* exists with top = bottom = G, parent = kNoBranch, empty parent_hash,    *)
(* bottom_height = 0 and synced_to_genesis = true, getAllHeads is exactly  *)
(* {G -> genesis branch}, setCurrentHead(kGenesisBranch, 0) succeeds and   *)
(* then getBranchAtHeight(0, true) = kGenesisBranch; in every later state  *)
(* the genesis branch still has parent = kNoBranch, bottom_height = 0 and  *)
(* synced_to_genesis = true.                                               *)
(***************************************************************************)
C17_GenesisBranch ==
  /\ GenesisStored =>
       /\ kGenesisBranch \in BranchIds
       /\ genesis_branch_ = all_branches_[kGenesisBranch]
       /\ Branch(kGenesisBranch) =
            [NewBranchInfo EXCEPT !.id = kGenesisBranch, !.top = cur,
                                  !.bottom = cur, !.synced_to_genesis = TRUE]
       /\ heads_ = Put(EmptyMap, cur, genesis_branch_)
       /\ setCurrentHead(This, kGenesisBranch, 0).err = "ok"
       /\ setCurrentHead(This, kGenesisBranch, 0).S.fail = "none"
       /\ getBranchAtHeight(setCurrentHead(This, kGenesisBranch, 0).S, 0, TRUE)
            = [err |-> "ok", id |-> kGenesisBranch]
  /\ (fail = "none" /\ BranchIds # {}) =>
       /\ kGenesisBranch \in BranchIds
       /\ genesis_branch_ = all_branches_[kGenesisBranch]
       /\ Branch(kGenesisBranch).id = kGenesisBranch
       /\ Branch(kGenesisBranch).parent = kNoBranch
       /\ Branch(kGenesisBranch).bottom_height = 0
       /\ Branch(kGenesisBranch).synced_to_genesis

\* a later state: the genesis branch absorbed a subgraph or was split
C17_Witness ==
  /\ fail = "none"
  /\ kGenesisBranch \in BranchIds
  /\ Branch(kGenesisBranch).forks # {}
  /\ Branch(kGenesisBranch).top_height > 0
  /\ Branch(kGenesisBranch).synced_to_genesis

\* the parent branch arguments a caller may pass to findStorePosition
ParentArgs == BranchIds \cup {newBranchId(This)}

\* what the contract prescribes for findStorePosition in this state
PositionVerdict(height, parent_branch, parent_height) ==
  IF height = 0
    THEN IF BranchIds # {} THEN "BRANCHES_STORE_ERROR" ELSE "ok"
  ELSE IF parent_branch \notin BranchIds THEN "BRANCHES_BRANCH_NOT_FOUND"
  ELSE IF parent_height < Branch(parent_branch).bottom_height
          \/ parent_height > Branch(parent_branch).top_height
    THEN "BRANCHES_HEIGHT_MISMATCH"
  ELSE "ok"

(***************************************************************************)
(* C18: findStorePosition returns StoreError for a height-0 tipset when    *)
(* the graph is not empty, BranchNotFound when the given parent branch     *)
(* does not exist, and HeightMismatch when parent_height lies outside      *)
(* [bottom_height, top_height] of the given parent branch; storeGenesis    *)
(* returns StoreError on a non-empty graph; in each of these cases the     *)
(* Branch DAG state is unchanged.                                          *)
(***************************************************************************)
C18_PositionErrors ==
  fail = "none" =>
    /\ \A t \in Tipsets : \A b \in ParentArgs : \A h \in 0..MaxHeight :
         (HeightOf(t) = 0 \/ h < HeightOf(t)) =>
           (PositionVerdict(HeightOf(t), b, h) # "ok" =>
              findStorePosition(This, t, HeightOf(t), ParentOf(t), b, h)
                = [err |-> PositionVerdict(HeightOf(t), b, h),
                   pos |-> NoPosition])
    /\ BranchIds # {} =>
         storeGenesis(This, 1, HeightOf(1))
           = [err |-> "BRANCHES_STORE_ERROR", S |-> This]

\* storeGenesis was refused on a graph in which a parent height can mismatch
C18_Witness ==
  /\ ret = [op |-> "storeGenesis", err |-> "BRANCHES_STORE_ERROR"]
  /\ \E t \in Tipsets : \E b \in BranchIds : \E h \in 0..MaxHeight :
       /\ h < HeightOf(t)
       /\ findStorePosition(This, t, HeightOf(t), ParentOf(t), b, h).err
            = "BRANCHES_HEIGHT_MISMATCH"

InitReturned == fail = "none" /\ ret.op = "init"

(***************************************************************************)
(* C19: whenever Branches::init returns an error (LoadError,               *)
(* ParentExpected or NoGenesisBranch) the Branch DAG is left empty:        *)
(* all_branches_, heads_, unloaded_roots_, the genesis branch and the      *)
(* current chain are all cleared.                                          *)
(***************************************************************************)
C19_InitErrorClears ==
  (InitReturned /\ ret.err # "ok") =>
    /\ all_branches_ = EmptyMap
    /\ heads_ = EmptyMap
    /\ unloaded_roots_ = EmptyMap
    /\ genesis_branch_ = NullPtr
    /\ current_chain_ = EmptyMap
    /\ current_top_branch_ = kNoBranch
    /\ current_height_ = 0

RECURSIVE ForkClosure(_, _)
\* the branches reachable from the set F through forks
ForkClosure(F, fuel) ==
  IF fuel = 0 THEN F
  ELSE ForkClosure(F \cup UNION {Branch(b).forks : b \in F \cap BranchIds},
                   fuel - 1)

SyncedLeafTops ==
  {Branch(b).top : b \in {c \in BranchIds : /\ Branch(c).forks = {}
                                            /\ Branch(c).synced_to_genesis}}

C24_ParentsAndForksAgree ==
  fail = "none" =>
    \A b \in BranchIds :
      /\ Branch(b).parent # kNoBranch =>
           /\ Branch(b).parent \in BranchIds
           /\ b \in Branch(Branch(b).parent).forks
      /\ \A f \in Branch(b).forks :
           /\ f \in BranchIds
           /\ Branch(f).parent = b

(***************************************************************************)
(* C25: in every reachable state every branch has                          *)
(* bottom_height <= top_height and every branch B with a parent has        *)
(* parent.top_height < B.bottom_height; in particular both branches        *)
(* produced by splitBranch.                                                *)
(***************************************************************************)
C25_HeightsOrdered ==
  fail = "none" =>
    \A b \in BranchIds :
      /\ Branch(b).bottom_height <= Branch(b).top_height
      /\ (Branch(b).parent # kNoBranch /\ Branch(b).parent \in BranchIds) =>
           Branch(Branch(b).parent).top_height < Branch(b).bottom_height

RECURSIVE ParentWalkEnds(_, _)
\* following parent ids from a reaches kNoBranch in at most fuel steps,
\* visiting existing branches only
ParentWalkEnds(a, fuel) ==
  IF a = kNoBranch THEN TRUE
  ELSE IF a \notin BranchIds \/ fuel = 0 THEN FALSE
  ELSE ParentWalkEnds(Branch(a).parent, fuel - 1)

(***************************************************************************)
(* C26: after any sequence of storeGenesis, splitBranch and storeTipset    *)
(* calls, following parent pointers from any branch of all_branches_       *)
(* visits only existing branches and reaches kNoBranch within              *)
(* |all_branches_| steps.                                                  *)
(***************************************************************************)
C26_ParentWalkEnds ==
  fail = "none" =>
    \A b \in BranchIds : ParentWalkEnds(b, Cardinality(BranchIds))

\* a step in which splitBranch ran to its end
SplitDone == pc = "found" /\ pc' = "split" /\ fail' = "none"

\* the arguments of that call besides the rename
SplitNewTop == ParentOf(cur)

SplitNewBottom ==
  lowestOf(tipsetsAbove(pos.rename.old_id, pos.rename.above_height))

(***************************************************************************)
(* C27: after splitBranch(new_top, new_bottom, new_bottom_height, rename)  *)
(* on a branch with heights [b, t] the old branch has bottom_height b,     *)
(* top_height = rename.above_height and top = new_top, and a branch with   *)
(* id rename.new_id exists with bottom = new_bottom,                       *)
(* bottom_height = new_bottom_height, top_height = t, the old branch's     *)
(* former top, and parent = rename.old_id.                                 *)
(***************************************************************************)
C27_SplitResult ==
  [][SplitDone =>
       LET r == pos.rename
           old == objs[all_branches_[r.old_id]]
       IN /\ r.old_id \in DOMAIN all_branches_'
          /\ r.new_id \in DOMAIN all_branches_'
          /\ objs'[all_branches_'[r.old_id]].id = r.old_id
          /\ objs'[all_branches_'[r.old_id]].bottom_height = old.bottom_height
          /\ objs'[all_branches_'[r.old_id]].top_height = r.above_height
          /\ objs'[all_branches_'[r.old_id]].top = SplitNewTop
          /\ objs'[all_branches_'[r.new_id]].id = r.new_id
          /\ objs'[all_branches_'[r.new_id]].bottom = SplitNewBottom
          /\ objs'[all_branches_'[r.new_id]].bottom_height
               = HeightOf(SplitNewBottom)
          /\ objs'[all_branches_'[r.new_id]].top_height = old.top_height
          /\ objs'[all_branches_'[r.new_id]].top = old.top
          /\ objs'[all_branches_'[r.new_id]].parent = r.old_id
  ]_vars

(***************************************************************************)
(* C28: after splitBranch every branch that was a fork of the old branch   *)
(* is a fork of the new branch and has parent = rename.new_id, the old     *)
(* branch's forks set is exactly {rename.new_id}, a heads_ entry that      *)
(* pointed to the old branch points to the new branch under the same top   *)
(* hash, and if the old branch was on the current chain then both the old  *)
(* and the new branch are on it, each keyed by its own top_height.         *)
(***************************************************************************)
C28_SplitMovesLinks ==
  [][SplitDone =>
       LET r == pos.rename
           old == all_branches_[r.old_id]
           new == all_branches_'[r.new_id]
       IN /\ r.new_id \in DOMAIN all_branches_'
          /\ \A f \in objs[old].forks :
               /\ f \in objs'[new].forks
               /\ f \in DOMAIN all_branches_'
               /\ objs'[all_branches_'[f]].parent = r.new_id
          /\ objs'[old].forks = {r.new_id}
          /\ \A h \in DOMAIN heads_ :
               heads_[h] = old => (h \in DOMAIN heads_' /\ heads_'[h] = new)
          /\ (\E k \in DOMAIN current_chain_ : current_chain_[k] = old) =>
               /\ objs'[old].top_height \in DOMAIN current_chain_'
               /\ current_chain_'[objs'[old].top_height] = old
               /\ objs'[new].top_height \in DOMAIN current_chain_'
               /\ current_chain_'[objs'[new].top_height] = new
  ]_vars

\* a step in which storeTipset merged the unloaded subgraph
\* pos.at_bottom_of_branch into the head branch pos.on_top_of_branch
MergeDone ==
  /\ pc \in {"found", "split"} /\ pc' = "idle" /\ fail' = "none"
  /\ ret'.op = "storeTipset"
  /\ pos.at_bottom_of_branch # kNoBranch
  /\ pos.on_top_of_branch # kNoBranch
  /\ pos.assigned_branch = pos.on_top_of_branch

RECURSIVE ForkClosureAfter(_, _)
\* the branches reachable through forks from the set F, in the next state
ForkClosureAfter(F, fuel) ==
  IF fuel = 0 THEN F
  ELSE ForkClosureAfter(
         F \cup UNION {objs'[all_branches_'[b]].forks :
                         b \in F \cap DOMAIN all_branches_'},
         fuel - 1)

(***************************************************************************)
(* C29: after storeTipset merges an unloaded subgraph into the head branch *)
(* below it, the absorbing branch has the subgraph branch's former top,    *)
(* top_height and forks, the subgraph's branch id is no longer in          *)
(* all_branches_ and no longer registered in unloaded_roots_, and every    *)
(* branch reachable through forks from the absorbing branch has            *)
(* synced_to_genesis equal to the absorbing branch's value.                *)
(***************************************************************************)
C29_MergeAbsorbs ==
  [][MergeDone =>
       LET sub == all_branches_[pos.at_bottom_of_branch]
           into == all_branches_[pos.on_top_of_branch]
       IN /\ pos.on_top_of_branch \in DOMAIN all_branches_'
          /\ all_branches_'[pos.on_top_of_branch] = into
          /\ objs'[into].top = objs[sub].top
          /\ objs'[into].top_height = objs[sub].top_height
          /\ objs'[into].forks = objs[sub].forks
          /\ pos.at_bottom_of_branch \notin DOMAIN all_branches_'
          /\ \A h \in DOMAIN unloaded_roots_' : unloaded_roots_'[h] # sub
          /\ \A b \in ForkClosureAfter({pos.on_top_of_branch},
                                       Cardinality(DOMAIN all_branches_')) :
               /\ b \in DOMAIN all_branches_'
               /\ objs'[all_branches_'[b]].synced_to_genesis
                    = objs'[into].synced_to_genesis
  ]_vars

\* the keys of current_chain_ in increasing order
ChainKeys == SortedSeq(DOMAIN current_chain_)

\* the branch of the current chain stored under the i-th key
ChainEntry(i) == objs[current_chain_[ChainKeys[i]]]

(***************************************************************************)
(* C30: in every reachable state with a non-empty current_chain_, its      *)
(* entries in increasing key order start with the genesis branch and end   *)
(* with the branch whose id is current_top_branch_, each entry's parent is *)
(* the id of the previous entry, and each entry is keyed by that branch's  *)
(* current top_height; storeTipset extending the current top branch and    *)
(* splitBranch splitting a branch of the current chain preserve this.      *)
(***************************************************************************)
C30_CurrentChainShape ==
  (fail = "none" /\ pc = "idle" /\ DOMAIN current_chain_ # {}) =>
    /\ ChainEntry(1).id = kGenesisBranch
    /\ ChainEntry(Len(ChainKeys)).id = current_top_branch_
    /\ \A i \in 2..Len(ChainKeys) : ChainEntry(i).parent = ChainEntry(i - 1).id
    /\ \A k \in DOMAIN current_chain_ : objs[current_chain_[k]].top_height = k

(***************************************************************************)
(* C22: a Hamt::set whose key's index path is fully consumed without       *)
(* finding a place returns MaxDepth and leaves the trie unchanged: every   *)
(* previously stored key still maps to its previous value and the tree     *)
(* shape is the same.                                                      *)
(***************************************************************************)
C22_MaxDepthLeavesTrie ==
  \A key \in Keys, value \in Values :
    LET r == set(hamt_store, hamt_root, key, value)
    IN r.err = "kMaxDepth" =>
         /\ r.root = hamt_root
         /\ \A k \in Keys :
              /\ get(hamt_store, r.root, k).err
                   = get(hamt_store, hamt_root, k).err
              /\ get(hamt_store, r.root, k).value
                   = get(hamt_store, hamt_root, k).value

\* a set has returned MaxDepth and the keys stored before are still there
C22_Witness ==
  /\ hamt_ret.op = "set" /\ hamt_ret.err = "kMaxDepth"
  /\ Cardinality(DOMAIN hamt_ref) >= kLeafMax
  /\ \A k \in DOMAIN hamt_ref : get(hamt_store, hamt_root, k).err = "ok"

\* what get answers for every key once the store works: the logical
\* contents of the Hamt with root item root
Contents(root) ==
  [k \in OutageKeys |->
     LET g == get(hamt_store, root, k) IN <<g.err, g.value>>]

\* the stores that fail to return one of the blocks
Outages == {hamt_store \ {b} : b \in hamt_store}

\* a call's outcome r under a failing store against its outcome full under
\* the working store: a storage error with the contents of before the call,
\* or no failed load and the outcome of the working store
OutageOutcome(r, r_root, full, full_root) ==
  IF r.err = "storage"
    THEN Contents(r_root) = Contents(hamt_root)
    ELSE r.err = full.err /\ Contents(r_root) = Contents(full_root)

(***************************************************************************)
(* C23: if the block store fails to return a node while a CID item is      *)
(* being loaded, the running set, get, remove or visit returns that        *)
(* storage error, and the key-to-value mapping of the Hamt observable once *)
(* the store works again is the same as before the call.                   *)
(***************************************************************************)
C23_StorageErrorKeepsContents ==
  /\ \A k \in OutageKeys :
       Contents(hamt_root)[k] = IF k \in DOMAIN hamt_ref
                                  THEN <<"ok", hamt_ref[k]>>
                                  ELSE <<"kNotFound", 0>>
  /\ \A st \in Outages :
       /\ \A key \in OutageKeys :
            LET r == get(st, hamt_root, key)
                full == get(hamt_store, hamt_root, key)
            IN /\ OutageOutcome(r, r.root, full, full.root)
               /\ r.err # "storage" => r.value = full.value
       /\ \A key \in OutageKeys :
            LET r == remove(st, hamt_root, key)
                full == remove(hamt_store, hamt_root, key)
            IN OutageOutcome(r, r.root, full, full.root)
       /\ \A key \in OutageKeys, value \in FlushValues :
            LET r == set(st, hamt_root, key, value)
                full == set(hamt_store, hamt_root, key, value)
            IN OutageOutcome(r, r.root, full, full.root)
       /\ LET r == visit(st, hamt_root)
              full == visit(hamt_store, hamt_root)
          IN OutageOutcome(r, r.item, full, full.item)

\* a remove of a stored key has returned the storage error of a node below
\* the root, the Hamt holding keys in several nodes
C23_Witness ==
  /\ hamt_ret = [op |-> "remove", err |-> "storage", present |-> TRUE]
  /\ hamt_root.t = "ptr"
  /\ Cardinality(DOMAIN hamt_ref) > kLeafMax

\* the outcome of get without the root it leaves behind
Answer(g) == <<g.err, g.value>>

(***************************************************************************)
(* C21: after flush returns root CID R, a new Hamt opened at R over the    *)
(* same block store returns for every key the same get result as the       *)
(* flushed Hamt, its subtrees being loaded from the store only on demand;  *)
(* and a later remove of a present key followed by flush makes get of that *)
(* key return NotFound both in the mutated Hamt and in a Hamt reopened at  *)
(* the new root.                                                           *)
(***************************************************************************)
C21_ReopenAtRoot ==
  LET f == flush(hamt_store, hamt_root)
      R == cid(f.item)
  IN /\ \A k \in OutageKeys :
          LET g == get(f.store, HamtAtCid(R), k)
          IN /\ Answer(g) = Answer(get(hamt_store, hamt_root, k))
             /\ Answer(g) = Answer(get(f.store, f.item, k))
             /\ g.root.t = "ptr"
             /\ \A i \in DOMAIN R \ {Head(keyToIndices(k, -1))} :
                  g.root.items[i] = R[i]
     /\ hamt_flushes > 0 =>
          \A k \in OutageKeys :
            get(hamt_store, hamt_root, k).err = "ok" =>
              LET rm == remove(hamt_store, hamt_root, k)
                  f2 == flush(hamt_store, rm.root)
              IN /\ rm.err = "ok"
                 /\ get(hamt_store, rm.root, k).err = "kNotFound"
                 /\ get(f2.store, f2.item, k).err = "kNotFound"
                 /\ get(f2.store, HamtAtCid(cid(f2.item)), k).err
                      = "kNotFound"

\* the Hamt was flushed, a key that some flushed node holds was removed and
\* the Hamt was flushed again, its trie being more than one node
C21_Witness ==
  /\ hamt_flushes = MaxReflushes
  /\ hamt_ret.op = "flush"
  /\ hamt_root.t = "cid"
  /\ \E i \in DOMAIN cid(hamt_root) : cid(hamt_root)[i].t = "cid"
  /\ \E k \in OutageKeys \ DOMAIN hamt_ref :
       \E b \in hamt_store : get(hamt_store, Cid(b), k).err = "ok"

(***************************************************************************)
(* C31: when the parent tipset lies in a known branch below that branch's  *)
(* top (bottom_height <= parent_height < top_height), findStorePosition    *)
(* returns on_top_of_branch = parent_branch together with a rename         *)
(* {old_id = parent_branch, new_id = an id not present in all_branches_    *)
(* and different from kNoBranch and kGenesisBranch, above_height =         *)
(* parent_height, split = true}, and does not assign the tipset to         *)
(* parent_branch.                                                          *)
(***************************************************************************)
C31_SplitRequested ==
  fail = "none" =>
    \A t \in Tipsets : \A b \in BranchIds : \A h \in 0..MaxHeight :
      (/\ HeightOf(t) > 0 /\ h < HeightOf(t)
       /\ Branch(b).bottom_height <= h /\ h < Branch(b).top_height) =>
        LET r == findStorePosition(This, t, HeightOf(t), ParentOf(t), b, h)
        IN /\ r.err = "ok"
           /\ r.pos.on_top_of_branch = b
           /\ r.pos.rename.present
           /\ r.pos.rename.old_id = b
           /\ r.pos.rename.new_id
                \notin BranchIds \cup {kNoBranch, kGenesisBranch}
           /\ r.pos.rename.above_height = h
           /\ r.pos.rename.split
           /\ r.pos.assigned_branch # b

\* findStorePosition has returned a split request for the tipset being stored
C31_Witness ==
  /\ fail = "none" /\ pc = "found"
  /\ pos.rename.present /\ pos.rename.split
  /\ pos.on_top_of_branch = pos.rename.old_id
  /\ pos.rename.above_height < Branch(pos.rename.old_id).top_height

(***************************************************************************)
(* C36: in every StorePosition returned by findStorePosition that carries  *)
(* a split rename, assigned_branch differs from rename.new_id, so that     *)
(* executing splitBranch with that rename and then storeTipset with that   *)
(* position never creates a branch under an id already present in          *)
(* all_branches_.                                                          *)
(***************************************************************************)
C36_SplitIdsDistinct ==
  fail = "none" =>
    \A t \in Tipsets : \A b \in BranchIds : \A h \in 0..MaxHeight :
      (HeightOf(t) > 0 /\ h < HeightOf(t)) =>
        LET r == findStorePosition(This, t, HeightOf(t), ParentOf(t), b, h)
        IN (r.err = "ok" /\ r.pos.rename.present /\ r.pos.rename.split) =>
             r.pos.assigned_branch # r.pos.rename.new_id

(***************************************************************************)
(* C32: in every reachable state, every entry (p -> B) of unloaded_roots_  *)
(* satisfies: B is in all_branches_, B.parent = kNoBranch, B.parent_hash = *)
(* p, B is not synced_to_genesis and no stored tipset has hash p; and      *)
(* every non-genesis branch with parent = kNoBranch is the value of the    *)
(* entry under its parent_hash, also when two parentless branches await    *)
(* the same parent hash or when a new branch is forked from the top of a   *)
(* known branch.                                                           *)
(***************************************************************************)
C32_UnloadedRoots ==
  fail = "none" =>
    /\ \A p \in DOMAIN unloaded_roots_ :
         LET B == objs[unloaded_roots_[p]]
         IN /\ B.id \in BranchIds
            /\ all_branches_[B.id] = unloaded_roots_[p]
            /\ B.parent = kNoBranch
            /\ B.parent_hash = p
            /\ ~B.synced_to_genesis
            /\ p \notin DOMAIN index_db_
    /\ \A b \in BranchIds \ {kGenesisBranch} :
         Branch(b).parent = kNoBranch =>
           /\ Branch(b).parent_hash \in DOMAIN unloaded_roots_
           /\ unloaded_roots_[Branch(b).parent_hash] = all_branches_[b]

RECURSIVE ReachesGenesis(_, _)
\* following parent from branch b through existing branches arrives at the
\* genesis branch within fuel steps
ReachesGenesis(b, fuel) ==
  IF b \notin BranchIds THEN FALSE
  ELSE IF b = kGenesisBranch THEN TRUE
  ELSE IF fuel = 0 THEN FALSE
  ELSE ReachesGenesis(Branch(b).parent, fuel - 1)

(***************************************************************************)
(* C33: in every reachable state, a branch has synced_to_genesis = true if *)
(* and only if following its parent pointers through existing branches     *)
(* reaches the genesis branch.                                             *)
(***************************************************************************)
C33_SyncedIffRooted ==
  fail = "none" =>
    \A b \in BranchIds :
      Branch(b).synced_to_genesis
        <=> ReachesGenesis(b, Cardinality(BranchIds))

\* the tipsets of the universe no tipset has as its parent
LeafTipsets == {t \in Tipsets : \A u \in Tipsets : ParentOf(u) # t}

\* every tipset of the universe has been stored and the last call returned
AllStored == fail = "none" /\ pc = "idle" /\ DOMAIN index_db_ = Tipsets

(***************************************************************************)
(* C37: for a finite set of tipsets that forms a tree rooted at genesis,   *)
(* with genesis stored first and the other tipsets stored exactly once     *)
(* each in any order through findStorePosition, splitBranch when a split   *)
(* is requested, and storeTipset: once all of them are stored, every       *)
(* branch is synced_to_genesis, unloaded_roots_ is empty and the keys of   *)
(* heads_ are exactly the leaf tipsets of the tree.                        *)
(***************************************************************************)
C37_AllStoredConverges ==
  AllStored =>
    /\ \A b \in BranchIds : Branch(b).synced_to_genesis
    /\ DOMAIN unloaded_roots_ = {}
    /\ DOMAIN heads_ = LeafTipsets

(***************************************************************************)
(* C40: Hamt::flush is idempotent: a second flush directly after a         *)
(* successful flush returns the same root CID and writes nothing to the    *)
(* block store, and get returns the same result for every key before the   *)
(* first flush, between the two and after the second.                      *)
(***************************************************************************)
C40_FlushIdempotent ==
  LET f1 == flush(hamt_store, hamt_root)
      f2 == flush(f1.store, f1.item)
  IN /\ cid(f2.item) = cid(f1.item)
     /\ f2.store = f1.store
     /\ \A k \in OutageKeys :
          /\ Answer(get(f1.store, f1.item, k))
               = Answer(get(hamt_store, hamt_root, k))
          /\ Answer(get(f2.store, f2.item, k))
               = Answer(get(hamt_store, hamt_root, k))
          \* the flush after a get between the two flushes
          /\ LET g == get(f1.store, f1.item, k)
                 f3 == flush(f1.store, g.root)
             IN cid(f3.item) = cid(f1.item) /\ f3.store = f1.store

\* flush was called directly after a flush of a trie of more than one node
C40_Witness ==
  /\ hamt_ret = [op |-> "flush", err |-> "ok", present |-> TRUE]
  /\ hamt_flushes = MaxReflushes
  /\ hamt_root.t = "cid"
  /\ \E i \in DOMAIN cid(hamt_root) : cid(hamt_root)[i].t = "cid"

RECURSIVE NoLoadedNode(_, _, _)
\* no Node::Ptr is reachable from the item through the blocks of the store
NoLoadedNode(st, item, fuel) ==
  IF item.t = "leaf" THEN TRUE
  ELSE IF item.t = "ptr" \/ fuel = 0 THEN FALSE
  ELSE /\ item.c \in st
       /\ \A i \in DOMAIN item.c : NoLoadedNode(st, item.c[i], fuel - 1)

(***************************************************************************)
(* C34: during Hamt::flush a node is written to the block store only after *)
(* every loaded child node below it has been written and replaced in place *)
(* by its CID; when flush returns successfully the root item is a CID and  *)
(* no loaded node remains reachable from it.                               *)
(***************************************************************************)
C34_ChildrenFirst ==
  LET W == flushOrder(hamt_store, hamt_root)
      f == flush(hamt_store, hamt_root)
  IN /\ \A j \in 1..Len(W) : \A i \in DOMAIN W[j] :
          /\ W[j][i].t # "ptr"
          /\ W[j][i].t = "cid" =>
               W[j][i].c \in hamt_store \cup {W[n] : n \in 1..(j - 1)}
     /\ f.store = hamt_store \cup Range(W)
     /\ f.item.t = "cid"
     /\ Len(W) > 0 => W[Len(W)] = cid(f.item)
     /\ NoLoadedNode(f.store, f.item, HashBits + 1)

\* flush has returned on a trie of three levels
C34_Witness ==
  /\ hamt_ret.op = "flush" /\ hamt_ret.err = "ok"
  /\ hamt_root.t = "cid"
  /\ \E i \in DOMAIN cid(hamt_root) :
       /\ cid(hamt_root)[i].t = "cid"
       /\ \E j \in DOMAIN cid(hamt_root)[i].c :
            cid(hamt_root)[i].c[j].t = "cid"

RECURSIVE LeavesBounded(_, _, _)
\* every Leaf reachable from the item holds 1..kLeafMax entries
LeavesBounded(st, item, fuel) ==
  IF item.t = "leaf"
    THEN /\ Cardinality(DOMAIN item.kv) >= 1
         /\ Cardinality(DOMAIN item.kv) <= kLeafMax
  ELSE IF fuel = 0 THEN FALSE
  ELSE LET items == IF item.t = "ptr" THEN item.items ELSE item.c
       IN \A i \in DOMAIN items : LeavesBounded(st, items[i], fuel - 1)

RECURSIVE SlotOf(_, _, _, _)
\* the slot the indices lead to below the item: its depth and what it holds
\* ("none": no item under the index)
SlotOf(st, item, indices, depth) ==
  LET items == IF item.t = "ptr" THEN item.items ELSE item.c
  IN IF indices = <<>> THEN [depth |-> depth, t |-> "end", kv |-> EmptyMap]
     ELSE IF Head(indices) \notin DOMAIN items
       THEN [depth |-> depth, t |-> "none", kv |-> EmptyMap]
     ELSE IF items[Head(indices)].t = "leaf"
       THEN [depth |-> depth, t |-> "leaf", kv |-> items[Head(indices)].kv]
     ELSE SlotOf(st, items[Head(indices)], Tail(indices), depth + 1)

\* set(key, value) reaches a full leaf that does not hold the key
ReachesFullLeaf(key) ==
  LET slot == SlotOf(hamt_store, hamt_root, keyToIndices(key, -1), 1)
  IN /\ slot.t = "leaf"
     /\ key \notin DOMAIN slot.kv
     /\ Cardinality(DOMAIN slot.kv) = kLeafMax

\* the set replaced the slot of the full leaf by a child node that holds
\* the new key and the entries of the former leaf
SplitDoneBy(key, value) ==
  LET slot == SlotOf(hamt_store, hamt_root, keyToIndices(key, -1), 1)
      r == set(hamt_store, hamt_root, key, value)
  IN /\ r.err = "ok"
     /\ SlotOf(hamt_store, r.root, keyToIndices(key, -1), 1).depth > slot.depth
     /\ Answer(get(hamt_store, r.root, key)) = <<"ok", value>>
     /\ \A k \in DOMAIN slot.kv :
          /\ Answer(get(hamt_store, r.root, k)) = <<"ok", slot.kv[k]>>
          /\ SlotOf(hamt_store, r.root, keyToIndices(k, -1), 1).depth
               > slot.depth

(***************************************************************************)
(* C35: in every reachable Hamt state every Leaf holds at least 1 and at   *)
(* most kLeafMax entries; a set of a new key that reaches a full leaf      *)
(* replaces that slot by a child node, and afterwards the new key and all  *)
(* entries of the former leaf are retrievable by get, each placed by its   *)
(* own index path from the child's level on.                               *)
(***************************************************************************)
C35_FullLeafSplits ==
  /\ LeavesBounded(hamt_store, hamt_root, HashBits + 1)
  /\ \A key \in Keys, value \in Values :
       ReachesFullLeaf(key) => SplitDoneBy(key, value)

(***************************************************************************)
(* C35 as amended: the same, except that a set whose key and the entries   *)
(* of the full leaf cannot be told apart by the rest of their index paths  *)
(* returns MaxDepth and leaves the leaf in place.                          *)
(***************************************************************************)
C35_FullLeafSplitsOrMaxDepth ==
  /\ LeavesBounded(hamt_store, hamt_root, HashBits + 1)
  /\ \A key \in Keys, value \in Values :
       ReachesFullLeaf(key) =>
         \/ SplitDoneBy(key, value)
         \/ /\ set(hamt_store, hamt_root, key, value)
                 = [err |-> "kMaxDepth", root |-> hamt_root]
            /\ \E k \in DOMAIN SlotOf(hamt_store, hamt_root,
                                      keyToIndices(key, -1), 1).kv :
                 keyToIndices(k, -1) = keyToIndices(key, -1)

\* a set has split a full leaf: the trie holds more than kLeafMax keys under
\* one slot of the root, which is a child node now
C35_Witness ==
  /\ hamt_ret.op = "set" /\ hamt_ret.err = "ok"
  /\ hamt_root.t = "ptr"
  /\ \E i \in DOMAIN hamt_root.items :
       /\ hamt_root.items[i].t = "ptr"
       /\ Cardinality({k \in DOMAIN hamt_ref :
                         Head(keyToIndices(k, -1)) = i}) > kLeafMax

(***************************************************************************)
(* C38: after any sequence of peer-connected, peer-disconnected and        *)
(* peer-latency events and changeRating calls (including a connected event *)
(* for a peer that is already connected), ratings_ contains exactly one    *)
(* entry for each peer in peers_, carrying that peer's current rating, and *)
(* no entry for a peer that is not in peers_.                              *)
(***************************************************************************)
C38_RatingsMirrorPeers ==
  /\ \A p \in DOMAIN peers_ :
       /\ <<peers_[p], p>> \in DOMAIN ratings_
       /\ ratings_[<<peers_[p], p>>] = 1
  /\ \A e \in DOMAIN ratings_ :
       e[2] \in DOMAIN peers_ /\ e[1] = peers_[e[2]]

(***************************************************************************)
(* C39: in every reachable state of Peers, selectBestPeer returns none if  *)
(* and only if no peer is connected, and any peer it returns is currently  *)
(* connected (isConnected of it is true).                                  *)
(***************************************************************************)
C39_BestPeerConnected ==
  \A best \in selectBestPeer(ratings_) :
    /\ best = 0 <=> \A p \in PeerIds : ~isConnected(peers_, p)
    /\ best # 0 => isConnected(peers_, best)

====
